---- MODULE Spec2Model ----
(***************************************************************************)
(* Model of m2v/engine/utils/midi.py: the Standard MIDI File decoder       *)
(* (unpack_vlq, parse_event, parse_events, MIDIFile.from_file), the tempo  *)
(* map (TempoMap) and the note assembler (TrackState, read_midi_file).     *)
(*                                                                         *)
(* Units.  Python computes times as floats in seconds.  The model keeps    *)
(* them exact: a time is the integer  seconds * ppqn * 1000000, so that    *)
(*   record.seconds + (T - record.tick) * (tempo / ppqn / 1000000)         *)
(* is  record.seconds + (T - record.tick) * tempo  in model units.         *)
(* A normalised velocity  v / 127  is kept as its numerator in 127ths, and *)
(* the velocity statistics of a track are kept in 127ths too (a raw        *)
(* velocity v is  v * 127  in that unit).                                  *)
(***************************************************************************)
EXTENDS Integers, Sequences, FiniteSets, TLC

VARIABLES
    memory_map,         \* the bytes of the file (read-only)
    pos,                \* memory_map's cursor: number of bytes consumed
    running_status,     \* parse_state.runningStatus; Unset until first assigned
    events,             \* parse_events: the events list being built
    midi_file,          \* MIDIFile: midi_format, ppqn, tempo, tracks
    tempo_tracks,       \* TempoMap.tempo_tracks
    pc,                 \* position in read_midi_file / parse_events
    err,                \* the exception that ended the call (NoError if none)
    track_index,        \* read_midi_file: enumerate(file_tracks) index
    event_index,        \* read_midi_file: position in track.events (1-based, next to read)
    track_state,        \* TrackState: time_in_ticks, time_in_seconds, note_on_table
    cur,                \* read_midi_file: the per-track locals (notes, notes_used, ...)
    working_tracks,     \* read_midi_file: working_tracks
    track_index_used,   \* read_midi_file: track_index_used
    tracks              \* read_midi_file: the returned track sequence

vars == <<memory_map, pos, running_status, events, midi_file, tempo_tracks, pc, err,
          track_index, event_index, track_state, cur, working_tracks,
          track_index_used, tracks>>

(***************************************************************************)
(* Bounds of the model                                                     *)
(***************************************************************************)
MaxEvents == 5      \* events of a generated file, EndOfTrack events included
MaxTracks == 3      \* track chunks of a generated file
MaxBytes == 5       \* bytes of a generated raw track body (SpecParse)

(***************************************************************************)
(* Program constants                                                       *)
(***************************************************************************)
DefaultTempo == 500000
VelocityDivisor == 127
InitialMinNote == 1000
InitialMaxNote == 0
InitialMinVelo == 127
InitialMaxVelo == 0
InitialMinDuration == 1000000
ChannelCount == 16
InitialTempo == -1
SentinelTempo == 0

Unset == -1         \* an attribute that was never assigned

(***************************************************************************)
(* Exceptions                                                              *)
(***************************************************************************)
NoError == [kind |-> "", arg |-> 0]
StructError == [kind |-> "struct.error", arg |-> 0]
KeyError(key) == [kind |-> "KeyError", arg |-> key]
AttributeError == [kind |-> "AttributeError", arg |-> 0]
IndexError == [kind |-> "IndexError", arg |-> 0]

(***************************************************************************)
(* Events.  One record shape for every event class; a class leaves the     *)
(* fields it does not have at 0 / <<>>.  `name` holds the Latin-1 payload  *)
(* of a text event as its byte codes (Latin-1 maps bytes to code points    *)
(* one to one); one- and two-byte channel events other than notes keep     *)
(* their data bytes in `note` and `velocity`; other meta and sys-ex        *)
(* payloads are kept in `name`.                                            *)
(***************************************************************************)
Event(type, delta_time, channel, note, velocity, tempo, name) ==
    [type |-> type, delta_time |-> delta_time, channel |-> channel, note |-> note,
     velocity |-> velocity, tempo |-> tempo, name |-> name]

NoEvent == Event("None", 0, 0, 0, 0, 0, <<>>)

meta_event_by_type ==
    [t \in {0, 1, 2, 3, 4, 5, 6, 7, 8, 9, 32, 33, 47, 81, 84, 88, 89, 127} |->
        CASE t = 0 -> "SequenceNumber"
          [] t = 1 -> "Text"
          [] t = 2 -> "Copyright"
          [] t = 3 -> "TrackName"
          [] t = 4 -> "InstrumentName"
          [] t = 5 -> "Lyric"
          [] t = 6 -> "Marker"
          [] t = 7 -> "CuePoint"
          [] t = 8 -> "ProgramName"
          [] t = 9 -> "DeviceName"
          [] t = 32 -> "MidiChannelPrefix"
          [] t = 33 -> "MidiPort"
          [] t = 47 -> "EndOfTrack"
          [] t = 81 -> "Tempo"
          [] t = 84 -> "SmpteOffset"
          [] t = 88 -> "TimeSignature"
          [] t = 89 -> "KeySignature"
          [] t = 127 -> "Sequencer"]

channel_event_by_status ==
    [s \in {128, 144, 160, 176, 192, 208, 224} |->
        CASE s = 128 -> "NoteOff"
          [] s = 144 -> "NoteOn"
          [] s = 160 -> "NotePressure"
          [] s = 176 -> "Controller"
          [] s = 192 -> "Program"
          [] s = 208 -> "ChannelPressure"
          [] s = 224 -> "PitchBend"]

(***************************************************************************)
(* Byte cursor: memory_map.read(n) returns the bytes that are left, at     *)
(* most n; struct.unpack of a fixed-size format raises struct.error when   *)
(* it is handed fewer.                                                     *)
(***************************************************************************)
Read(mm, p, n) ==
    IF p + n <= Len(mm)
    THEN [err |-> NoError, bytes |-> SubSeq(mm, p + 1, p + n), pos |-> p + n]
    ELSE [err |-> StructError, bytes |-> <<>>, pos |-> Len(mm)]

RECURSIVE BigEndian(_)
BigEndian(bytes) ==
    IF bytes = <<>> THEN 0
    ELSE BigEndian(SubSeq(bytes, 1, Len(bytes) - 1)) * 256 + bytes[Len(bytes)]

\* unpack_vlq: total = (total << 7) + (char & 0x7F) until a byte without 0x80.
RECURSIVE unpack_vlq_loop(_, _, _)
\* A faulty variant of unpack_vlq_char: total is shifted by 8 bits a byte.
unpack_vlq_char_shift8(r, mm, total) ==
    IF r.err # NoError THEN [err |-> r.err, value |-> 0, pos |-> r.pos]
    ELSE IF r.bytes[1] >= 128
         THEN unpack_vlq_loop(mm, r.pos, total * 256 + (r.bytes[1] % 128))
         ELSE [err |-> NoError, value |-> total * 256 + (r.bytes[1] % 128), pos |-> r.pos]

unpack_vlq_char(r, mm, total) ==
    IF r.err # NoError THEN [err |-> r.err, value |-> 0, pos |-> r.pos]
    ELSE IF r.bytes[1] >= 128
         THEN unpack_vlq_loop(mm, r.pos, total * 128 + (r.bytes[1] % 128))
         ELSE [err |-> NoError, value |-> total * 128 + (r.bytes[1] % 128), pos |-> r.pos]

unpack_vlq_loop(mm, p, total) == unpack_vlq_char(Read(mm, p, 1), mm, total)

unpack_vlq(mm, p) == unpack_vlq_loop(mm, p, 0)

(***************************************************************************)
(* from_memory_map of the event classes.  A parse result is the exception  *)
(* raised (NoError if none), the event and the cursor.                     *)
(***************************************************************************)
Failed(e, p) == [err |-> e, event |-> NoEvent, pos |-> p]
Parsed(ev, p) == [err |-> NoError, event |-> ev, pos |-> p]

\* The channel classes: two data bytes, or one for Program and ChannelPressure.
channel_event_read(r, type, delta_time, channel) ==
    IF r.err # NoError THEN Failed(r.err, r.pos)
    ELSE Parsed(Event(type, delta_time, channel, r.bytes[1],
                      IF Len(r.bytes) = 2 THEN r.bytes[2] ELSE 0, 0, <<>>), r.pos)

channel_from_memory_map(type, delta_time, channel, mm, p) ==
    channel_event_read(Read(mm, p, IF type \in {"Program", "ChannelPressure"} THEN 1 ELSE 2),
                       type, delta_time, channel)

\* The meta classes: the text classes and Sequencer read `length` bytes, the
\* others read the fixed number of bytes of their class whatever `length` is.
meta_payload_size(type, length) ==
    CASE type = "SequenceNumber" -> 2
      [] type \in {"MidiChannelPrefix", "MidiPort"} -> 1
      [] type = "EndOfTrack" -> 0
      [] type = "Tempo" -> 3
      [] type = "SmpteOffset" -> 5
      [] type = "TimeSignature" -> 4
      [] type = "KeySignature" -> 2
      [] OTHER -> length

meta_event_read(r, type, delta_time) ==
    IF r.err # NoError THEN Failed(r.err, r.pos)
    ELSE Parsed(Event(type, delta_time, 0, 0, 0,
                      IF type = "Tempo" THEN BigEndian(r.bytes) ELSE 0,
                      IF type = "Tempo" THEN <<>> ELSE r.bytes), r.pos)

meta_from_memory_map(type, delta_time, length, mm, p) ==
    meta_event_read(Read(mm, p, meta_payload_size(type, length)), type, delta_time)

\* A faulty variant of note_on_zero_as_note_off: the NoteOnEvent is returned
\* as it was read.
note_on_zero_kept(r, delta_time, channel) == r

\* Lines 621-623: a NoteOnEvent with velocity 0 is returned as a NoteOffEvent.
note_on_zero_as_note_off(r, delta_time, channel) ==
    IF r.err = NoError /\ r.event.type = "NoteOn" /\ r.event.velocity = 0
    THEN Parsed(Event("NoteOff", delta_time, channel, r.event.note, 0, 0, <<>>), r.pos)
    ELSE r

\* channel_event_by_status[status & 0xF0] raises KeyError(0xF0) for the
\* status bytes 0xF1-0xF6 and 0xF8-0xFE.
parse_channel_event(delta_time, status, mm, p) ==
    IF status - (status % 16) \notin DOMAIN channel_event_by_status
    THEN Failed(KeyError(status - (status % 16)), p)
    ELSE note_on_zero_as_note_off(
             channel_from_memory_map(channel_event_by_status[status - (status % 16)],
                                     delta_time, status % 16, mm, p),
             delta_time, status % 16)

\* meta_event_by_type[event_type] raises KeyError(event_type), after the
\* length has been read.
meta_event_of_type(event_type, l, delta_time, mm) ==
    IF l.err # NoError THEN Failed(l.err, l.pos)
    ELSE IF event_type \notin DOMAIN meta_event_by_type
         THEN Failed(KeyError(event_type), l.pos)
         ELSE meta_from_memory_map(meta_event_by_type[event_type], delta_time, l.value,
                                   mm, l.pos)

meta_event_type_read(t, delta_time, mm) ==
    IF t.err # NoError THEN Failed(t.err, t.pos)
    ELSE meta_event_of_type(t.bytes[1], unpack_vlq(mm, t.pos), delta_time, mm)

parse_meta_event(delta_time, mm, p) == meta_event_type_read(Read(mm, p, 1), delta_time, mm)

sys_ex_event_read(r, delta_time, status) ==
    IF r.err # NoError THEN Failed(r.err, r.pos)
    ELSE Parsed(Event(IF status = 240 THEN "SysEx" ELSE "EscapeSequence",
                      delta_time, 0, 0, 0, 0, r.bytes), r.pos)

sys_ex_event_of_length(l, delta_time, status, mm) ==
    IF l.err # NoError THEN Failed(l.err, l.pos)
    ELSE sys_ex_event_read(Read(mm, l.pos, l.value), delta_time, status)

parse_sys_ex_event(delta_time, status, mm, p) ==
    sys_ex_event_of_length(unpack_vlq(mm, p), delta_time, status, mm)

(***************************************************************************)
(* parse_event: its result also carries the running status it leaves in    *)
(* parse_state.  The attribute it reads and writes is runningStatus, which *)
(* MidiParseState does not declare: reading it before the first status     *)
(* byte has been stored raises AttributeError.                             *)
(***************************************************************************)
WithStatus(r, rs) ==
    [err |-> r.err, event |-> r.event, pos |-> r.pos, running_status |-> rs]

\* Lines 646-652, with the running status and the cursor lines 643-644 leave.
parse_event_dispatch(delta_time, mm, p, rs) ==
    IF rs = Unset THEN WithStatus(Failed(AttributeError, p), rs)
    ELSE IF rs = 255 THEN WithStatus(parse_meta_event(delta_time, mm, p), rs)
    ELSE IF rs = 240 \/ rs = 247
         THEN WithStatus(parse_sys_ex_event(delta_time, rs, mm, p), rs)
    ELSE WithStatus(parse_channel_event(delta_time, rs, mm, p), rs)

\* A faulty variant of parse_event_status: the byte read at the status
\* position is not put back when its high bit is clear.
parse_event_status_no_rewind(s, delta_time, mm, rs) ==
    IF s.err # NoError THEN WithStatus(Failed(s.err, s.pos), rs)
    ELSE IF s.bytes[1] >= 128
         THEN parse_event_dispatch(delta_time, mm, s.pos, s.bytes[1])
         ELSE parse_event_dispatch(delta_time, mm, s.pos, rs)

\* Lines 641-644: a status byte with the high bit set is stored, any other
\* byte is put back (seek(-1, SEEK_CUR)).
parse_event_status(s, delta_time, mm, rs) ==
    IF s.err # NoError THEN WithStatus(Failed(s.err, s.pos), rs)
    ELSE IF s.bytes[1] >= 128
         THEN parse_event_dispatch(delta_time, mm, s.pos, s.bytes[1])
         ELSE parse_event_dispatch(delta_time, mm, s.pos - 1, rs)

parse_event_delta(d, mm, rs) ==
    IF d.err # NoError THEN WithStatus(Failed(d.err, d.pos), rs)
    ELSE parse_event_status(Read(mm, d.pos, 1), d.value, mm, rs)

parse_event(mm, p, rs) == parse_event_delta(unpack_vlq(mm, p), mm, rs)

\* parse_events: a fresh MidiParseState, then parse_event until EndOfTrack.
RECURSIVE parse_events_loop(_, _, _, _)
parse_events_append(r, mm, evs) ==
    IF r.err # NoError THEN [err |-> r.err, events |-> <<>>, pos |-> r.pos]
    ELSE IF r.event.type = "EndOfTrack"
         THEN [err |-> NoError, events |-> Append(evs, r.event), pos |-> r.pos]
         ELSE parse_events_loop(mm, r.pos, r.running_status, Append(evs, r.event))

parse_events_loop(mm, p, rs, evs) == parse_events_append(parse_event(mm, p, rs), mm, evs)

parse_events(mm, p) == parse_events_loop(mm, p, Unset, <<>>)

\* parse_track_header: a 4-byte identifier (a short read is not an error),
\* then struct.unpack(">I") of the chunk length, which the caller drops.
parse_track_header(mm, p) == Read(mm, IF p + 4 <= Len(mm) THEN p + 4 ELSE Len(mm), 4)

track_events_after_header(h, mm) ==
    IF h.err # NoError THEN [err |-> h.err, events |-> <<>>, pos |-> h.pos]
    ELSE parse_events(mm, h.pos)

MidiTrack_from_memory_map(mm, p) == track_events_after_header(parse_track_header(mm, p), mm)

\* A faulty variant of header_fields: the format and the ppqn are taken from
\* each other's bytes.
header_fields_swapped(l, f, n, q) ==
    IF l.err # NoError \/ f.err # NoError \/ n.err # NoError \/ q.err # NoError
    THEN [err |-> StructError, midi_format |-> 0, tracks_count |-> 0, ppqn |-> 0,
          pos |-> q.pos]
    ELSE [err |-> NoError, midi_format |-> BigEndian(q.bytes),
          tracks_count |-> BigEndian(n.bytes), ppqn |-> BigEndian(f.bytes),
          pos |-> q.pos]

\* parse_header: identifier, chunk length, then format, track count and ppqn
\* as big-endian 16-bit numbers.
header_fields(l, f, n, q) ==
    IF l.err # NoError \/ f.err # NoError \/ n.err # NoError \/ q.err # NoError
    THEN [err |-> StructError, midi_format |-> 0, tracks_count |-> 0, ppqn |-> 0,
          pos |-> q.pos]
    ELSE [err |-> NoError, midi_format |-> BigEndian(f.bytes),
          tracks_count |-> BigEndian(n.bytes), ppqn |-> BigEndian(q.bytes),
          pos |-> q.pos]

parse_header(mm) ==
    header_fields(Read(mm, IF 4 <= Len(mm) THEN 4 ELSE Len(mm), 4),
                  Read(mm, 8, 2), Read(mm, 10, 2), Read(mm, 12, 2))

RECURSIVE parse_tracks_loop(_, _, _, _)
parse_tracks_append(t, mm, tracks_count, done) ==
    IF t.err # NoError THEN [err |-> t.err, tracks |-> <<>>, pos |-> t.pos]
    ELSE parse_tracks_loop(mm, t.pos, tracks_count, Append(done, t.events))

parse_tracks_loop(mm, p, tracks_count, done) ==
    IF Len(done) = tracks_count THEN [err |-> NoError, tracks |-> done, pos |-> p]
    ELSE parse_tracks_append(MidiTrack_from_memory_map(mm, p), mm, tracks_count, done)

parse_tracks(mm, p, tracks_count) == parse_tracks_loop(mm, p, tracks_count, <<>>)

\* MIDIFile.from_file: header, tracks, tempo = -1.
midi_file_of(h, t) ==
    IF t.err # NoError THEN [err |-> t.err, file |-> <<>>, pos |-> t.pos]
    ELSE [err |-> NoError, pos |-> t.pos,
          file |-> [midi_format |-> h.midi_format, ppqn |-> h.ppqn,
                    tempo |-> InitialTempo, tracks |-> t.tracks]]

from_file_tracks(h, mm) ==
    IF h.err # NoError THEN [err |-> h.err, file |-> <<>>, pos |-> h.pos]
    ELSE midi_file_of(h, parse_tracks(mm, h.pos, h.tracks_count))

from_file(mm) == from_file_tracks(parse_header(mm), mm)

(***************************************************************************)
(* TempoMap                                                                *)
(***************************************************************************)
TempoEventRecord(time_in_ticks, time_in_seconds, tempo) ==
    [time_in_ticks |-> time_in_ticks, time_in_seconds |-> time_in_seconds,
     tempo |-> tempo]

\* A faulty variant of matched_event: the list is filtered in list order
\* (`reversed` forgotten), so the earliest matching record is taken.
RECURSIVE matched_event_forward(_, _)
matched_event_forward(tempo_events, time_in_ticks) ==
    IF tempo_events = <<>> THEN TempoEventRecord(0, 0, DefaultTempo)
    ELSE IF Head(tempo_events).time_in_ticks <= time_in_ticks THEN Head(tempo_events)
         ELSE matched_event_forward(Tail(tempo_events), time_in_ticks)

\* next(filter(match_function, reversed(tempo_events)), TempoEventRecord(0, 0, 500_000))
RECURSIVE matched_event(_, _)
matched_event(tempo_events, time_in_ticks) ==
    IF tempo_events = <<>> THEN TempoEventRecord(0, 0, DefaultTempo)
    ELSE LET last == tempo_events[Len(tempo_events)] IN
         IF last.time_in_ticks <= time_in_ticks THEN last
         ELSE matched_event(SubSeq(tempo_events, 1, Len(tempo_events) - 1), time_in_ticks)

\* A faulty variant of seconds_from: the ticks are converted from tick 0 at
\* the matched record's tempo, the record's own tick and time left out.
seconds_from_origin(tempo_event, time_in_ticks) == time_in_ticks * tempo_event.tempo

\* Lines 742-745, in model units (seconds * ppqn * 1000000).
seconds_from(tempo_event, time_in_ticks) ==
    tempo_event.time_in_seconds
        + (time_in_ticks - tempo_event.time_in_ticks) * tempo_event.tempo

\* TempoMap.time_in_ticks_to_seconds
time_in_ticks_to_seconds(tt, midi_format, ti, time_in_ticks) ==
    seconds_from(matched_event(tt[(IF midi_format # 1 THEN ti ELSE 0) + 1], time_in_ticks),
                 time_in_ticks)

\* tempo / self.ppqn raises ZeroDivisionError when the header's ppqn is 0.
ZeroDivisionError == [kind |-> "ZeroDivisionError", arg |-> 0]

\* A faulty variant of scan_tempo_events: a record is given the event's delta
\* time as its tick instead of the accumulated tick position.
RECURSIVE scan_tempo_events_delta_ticks(_, _, _, _, _, _)
scan_tempo_events_delta_ticks(tt, midi_format, ti, evs, i, ticks) ==
    IF i > Len(evs) THEN tt
    ELSE LET event == evs[i]
             time_in_ticks == ticks + event.delta_time
             time_in_seconds == time_in_ticks_to_seconds(tt, midi_format, ti, time_in_ticks)
             tt2 == IF event.type # "Tempo" THEN tt
                    ELSE [tt EXCEPT ![ti + 1] =
                            Append(@, TempoEventRecord(event.delta_time, time_in_seconds,
                                                       event.tempo))]
         IN  scan_tempo_events_delta_ticks(tt2, midi_format, ti, evs, i + 1, time_in_ticks)

\* The inner loop of compute_tempo_tracks over one track's events.
RECURSIVE scan_tempo_events(_, _, _, _, _, _)
scan_tempo_events(tt, midi_format, ti, evs, i, ticks) ==
    IF i > Len(evs) THEN tt
    ELSE LET event == evs[i]
             time_in_ticks == ticks + event.delta_time
             time_in_seconds == time_in_ticks_to_seconds(tt, midi_format, ti, time_in_ticks)
             tt2 == IF event.type # "Tempo" THEN tt
                    ELSE [tt EXCEPT ![ti + 1] =
                            Append(@, TempoEventRecord(time_in_ticks, time_in_seconds,
                                                       event.tempo))]
         IN  scan_tempo_events(tt2, midi_format, ti, evs, i + 1, time_in_ticks)

\* The outer loop: self.tempo_tracks[track_index] raises IndexError for a
\* track the list has no entry for.
RECURSIVE scan_tempo_tracks(_, _, _, _, _)
scan_tempo_tracks(tt, midi_format, ppqn, trks, ti) ==
    IF ti >= Len(trks) THEN [err |-> NoError, tempo_tracks |-> tt]
    ELSE IF ti >= Len(tt) THEN [err |-> IndexError, tempo_tracks |-> tt]
    ELSE IF ppqn = 0 THEN [err |-> ZeroDivisionError, tempo_tracks |-> tt]
    ELSE scan_tempo_tracks(scan_tempo_events(tt, midi_format, ti, trks[ti + 1], 1, 0),
                           midi_format, ppqn, trks, ti + 1)

\* [[] * len(tracks)] is a list holding one empty list, whatever len(tracks) is.
initial_tempo_tracks(trks) == << <<>> >>

compute_tempo_tracks(file) ==
    LET trks == IF file.midi_format = 1
                THEN SubSeq(file.tracks, 1, IF Len(file.tracks) >= 1 THEN 1 ELSE 0)
                ELSE file.tracks
    IN  scan_tempo_tracks(initial_tempo_tracks(trks), file.midi_format, file.ppqn, trks, 0)

(***************************************************************************)
(* TrackState                                                              *)
(***************************************************************************)
NoteOnRecord(ticks, time, velocity) ==
    [ticks |-> ticks, time |-> time, velocity |-> velocity, number_of_notes |-> 1]

EmptyTable == [k \in {} |-> 0]

NewTrackState ==
    [time_in_ticks |-> 0, time_in_seconds |-> 0, note_on_table |-> EmptyTable]

Key(event) == <<event.channel, event.note>>

update_time(ts, tt, midi_format, ti, delta_time) ==
    [ts EXCEPT !.time_in_ticks = @ + delta_time,
               !.time_in_seconds =
                   time_in_ticks_to_seconds(tt, midi_format, ti, ts.time_in_ticks + delta_time)]

\* A faulty variant of record_note_on: a stacked NoteOn also overwrites the
\* time and the velocity of the pending record.
record_note_on_overwriting(ts, event) ==
    LET key == Key(event)
        table == ts.note_on_table
    IN  [ts EXCEPT !.note_on_table =
            [k \in DOMAIN table \cup {key} |->
                IF k # key THEN table[k]
                ELSE [ticks |-> ts.time_in_ticks, time |-> ts.time_in_seconds,
                      velocity |-> event.velocity,
                      number_of_notes |-> IF key \in DOMAIN table
                                          THEN table[key].number_of_notes + 1 ELSE 1]]]

\* event.velocity / 127 is kept as its numerator.
record_note_on(ts, event) ==
    LET key == Key(event)
        table == ts.note_on_table
    IN  IF key \in DOMAIN table
        THEN [ts EXCEPT !.note_on_table =
                 [table EXCEPT ![key].number_of_notes = @ + 1]]
        ELSE [ts EXCEPT !.note_on_table =
                 [k \in DOMAIN table \cup {key} |->
                     IF k = key
                     THEN NoteOnRecord(ts.time_in_ticks, ts.time_in_seconds, event.velocity)
                     ELSE table[k]]]

NoRecord == [ticks |-> 0, time |-> 0, velocity |-> 0, number_of_notes |-> 0]

\* A faulty variant of get_corresponding_note_on_record: the entry is deleted
\* and returned whatever its count.
get_corresponding_note_on_record_eager(ts, event) ==
    LET key == Key(event)
        table == ts.note_on_table
    IN  IF key \notin DOMAIN table
        THEN [err |-> KeyError(event.channel * 128 + event.note), record |-> NoRecord,
              state |-> ts]
        ELSE [err |-> NoError, record |-> table[key],
              state |-> [ts EXCEPT !.note_on_table =
                            [k \in DOMAIN table \ {key} |-> table[k]]]]

\* get_corresponding_note_on_record: self.note_on_table[key] raises KeyError
\* for a key the table does not hold.  `record` is NoRecord for None.
get_corresponding_note_on_record(ts, event) ==
    LET key == Key(event)
        table == ts.note_on_table
    IN  IF key \notin DOMAIN table
        THEN [err |-> KeyError(event.channel * 128 + event.note), record |-> NoRecord,
              state |-> ts]
        ELSE IF table[key].number_of_notes = 1
        THEN [err |-> NoError, record |-> table[key],
              state |-> [ts EXCEPT !.note_on_table =
                            [k \in DOMAIN table \ {key} |-> table[k]]]]
        ELSE [err |-> NoError, record |-> NoRecord,
              state |-> [ts EXCEPT !.note_on_table =
                            [table EXCEPT ![key].number_of_notes = @ - 1]]]

(***************************************************************************)
(* Generated inputs: Standard MIDI Files written event by event.           *)
(***************************************************************************)
Formats == {0, 1, 2}
Ppqns == {480}

\* The variable-length encoding of v: seven bits a byte, most significant
\* first, the high bit set on every byte but the last.
RECURSIVE VlqContinuation(_)
VlqContinuation(v) ==
    IF v = 0 THEN <<>> ELSE VlqContinuation(v \div 128) \o <<128 + (v % 128)>>

EncodeVlq(v) == VlqContinuation(v \div 128) \o <<v % 128>>
U16(v) == <<v \div 256, v % 256>>
U24(v) == <<v \div 65536, (v \div 256) % 256, v % 256>>

NoteOnBytes(delta, channel, note, velocity) ==
    EncodeVlq(delta) \o <<144 + channel, note, velocity>>
NoteOffBytes(delta, channel, note, velocity) ==
    EncodeVlq(delta) \o <<128 + channel, note, velocity>>
TempoBytes(delta, tempo) == EncodeVlq(delta) \o <<255, 81, 3>> \o U24(tempo)
TrackNameBytes(delta, name) == EncodeVlq(delta) \o <<255, 3, Len(name)>> \o name
EndOfTrackBytes == <<0, 255, 47, 0>>

\* The events a generated track body is made of.
EventAlphabet ==
    { NoteOnBytes(0, 0, 60, 64),
      NoteOnBytes(480, 0, 60, 100),
      NoteOnBytes(0, 1, 62, 100),
      NoteOffBytes(480, 0, 60, 64),
      NoteOnBytes(480, 1, 62, 0),
      TempoBytes(480, 125000) }

\* What the first track of a generated file may start with.
TrackPrefixes == { <<>>, TrackNameBytes(0, <<84>>) \o TempoBytes(0, 250000) }

RECURSIVE Flatten(_)
Flatten(ss) == IF ss = <<>> THEN <<>> ELSE Head(ss) \o Flatten(Tail(ss))

Bodies(n) == { Flatten(b) : b \in [1..n -> EventAlphabet] }

\* Every list of t track bodies of at most `budget` events in all.
RECURSIVE BodyLists(_, _)
BodyLists(t, budget) ==
    IF t = 0 THEN { <<>> }
    ELSE UNION { { <<b>> \o rest : b \in Bodies(n), rest \in BodyLists(t - 1, budget - n) }
                 : n \in 0..budget }

HeaderBytes(midi_format, tracks_count, ppqn) ==
    <<77, 84, 104, 100, 0, 0, 0, 6>> \o U16(midi_format) \o U16(tracks_count) \o U16(ppqn)

ChunkBytes(body) ==
    <<77, 84, 114, 107, 0, 0>> \o U16(Len(body) + 4) \o body \o EndOfTrackBytes

RECURSIVE ChunksBytes(_)
ChunksBytes(bodies) ==
    IF bodies = <<>> THEN <<>> ELSE ChunkBytes(Head(bodies)) \o ChunksBytes(Tail(bodies))

WithPrefix(bl, prefix) == IF bl = <<>> THEN bl ELSE [bl EXCEPT ![1] = prefix \o @]

\* The generated files of t track chunks.
FilesOfTracks(t) ==
    { HeaderBytes(f, t, q) \o ChunksBytes(WithPrefix(bl, prefix))
      : f \in Formats, q \in Ppqns, bl \in BodyLists(t, MaxEvents - t),
        prefix \in TrackPrefixes }

(***************************************************************************)
(* A second family of generated files, for the edges of the format: Tempo  *)
(* events of tempo 0 and at the tick of another Tempo event, and note      *)
(* events whose data bytes have the high bit set.                          *)
(***************************************************************************)
EdgeAlphabet ==
    { NoteOnBytes(0, 0, 60, 64),
      NoteOffBytes(480, 0, 60, 64),
      TempoBytes(0, 0),
      TempoBytes(480, 400000),
      NoteOnBytes(0, 0, 200, 255),
      NoteOffBytes(480, 0, 200, 0) }

EdgeBodies(n) == { Flatten(b) : b \in [1..n -> EdgeAlphabet] }

RECURSIVE EdgeBodyLists(_, _)
EdgeBodyLists(t, budget) ==
    IF t = 0 THEN { <<>> }
    ELSE UNION { { <<b>> \o rest : b \in EdgeBodies(n),
                                   rest \in EdgeBodyLists(t - 1, budget - n) }
                 : n \in 0..budget }

EdgeFilesOfTracks(t) ==
    { HeaderBytes(f, t, q) \o ChunksBytes(WithPrefix(bl, prefix))
      : f \in Formats, q \in Ppqns, bl \in EdgeBodyLists(t, MaxEvents - t),
        prefix \in TrackPrefixes }

(***************************************************************************)
(* read_midi_file as a state machine                                       *)
(***************************************************************************)
NoFile == [midi_format |-> 0, ppqn |-> 0, tempo |-> InitialTempo, tracks |-> <<>>]

\* Lines 803-811: the locals a track's assembly starts from.
NewTrackLocals ==
    [notes |-> <<>>, notes_used |-> <<>>, track_name |-> <<>>,
     min_note |-> InitialMinNote, max_note |-> InitialMaxNote,
     min_velo |-> InitialMinVelo * VelocityDivisor,
     max_velo |-> InitialMaxVelo * VelocityDivisor,
     min_duration_in_ticks |-> InitialMinDuration]

InitCommon ==
    /\ pos = 0
    /\ running_status = Unset
    /\ events = <<>>
    /\ midi_file = NoFile
    /\ tempo_tracks = <<>>
    /\ err = NoError
    /\ track_index = 0
    /\ event_index = 1
    /\ track_state = NewTrackState
    /\ cur = NewTrackLocals
    /\ working_tracks = <<>>
    /\ track_index_used = 0
    /\ tracks = <<>>

Init ==
    /\ \E t \in 0..MaxTracks : memory_map \in FilesOfTracks(t)
    /\ pc = "from_file"
    /\ InitCommon

Min(a, b) == IF a <= b THEN a ELSE b
Max(a, b) == IF a >= b THEN a ELSE b

MIDINote(channel, note_number, time_on, time_off, velocity) ==
    [channel |-> channel, note_number |-> note_number, time_on |-> time_on,
     time_off |-> time_off, velocity |-> velocity]

MIDITrack(name, index, min_note, max_note, min_velo, max_velo, notes, notes_used) ==
    [name |-> name, index |-> index, min_note |-> min_note, max_note |-> max_note,
     min_velo |-> min_velo, max_velo |-> max_velo, notes |-> notes,
     notes_used |-> notes_used]

\* MIDINote.copy: a new note built from the five fields.
MIDINote_copy(note) ==
    MIDINote(note.channel, note.note_number, note.time_on, note.time_off,
             note.velocity)

\* MIDITrack.copy: a new track built from seven positional arguments, the
\* notes copied one by one; notes_used is not passed and takes its default,
\* the empty list.
MIDITrack_copy(track) ==
    MIDITrack(track.name, track.index, track.min_note, track.max_note,
              track.min_velo, track.max_velo,
              [k \in 1..Len(track.notes) |-> MIDINote_copy(track.notes[k])],
              <<>>)

Contains(seq, x) == \E i \in 1..Len(seq) : seq[i] = x

\* A faulty variant of file_tracks: track 0 of a format-1 file is kept.
file_tracks_with_track_zero == midi_file.tracks

\* file_tracks (line 800)
file_tracks ==
    IF midi_file.midi_format # 1 THEN midi_file.tracks
    ELSE SubSeq(midi_file.tracks, 2, Len(midi_file.tracks))

Raise(e) ==
    /\ pc' = "error"
    /\ err' = e

\* Line 791: midi_file = MIDIFile.from_file(path)
FromFile ==
    /\ pc = "from_file"
    /\ LET r == from_file(memory_map) IN
       /\ pos' = r.pos
       /\ IF r.err # NoError
          THEN Raise(r.err) /\ UNCHANGED midi_file
          ELSE pc' = "tempo_map" /\ midi_file' = r.file /\ UNCHANGED err
    /\ UNCHANGED <<memory_map, running_status, events, tempo_tracks, track_index,
                   event_index, track_state, cur, working_tracks, track_index_used,
                   tracks>>

\* Line 792: tempo_map = TempoMap(midi_file)
BuildTempoMap ==
    /\ pc = "tempo_map"
    /\ LET r == compute_tempo_tracks(midi_file) IN
       /\ tempo_tracks' = r.tempo_tracks
       /\ IF r.err # NoError THEN Raise(r.err) ELSE pc' = "tempo" /\ UNCHANGED err
    /\ UNCHANGED <<memory_map, pos, running_status, events, midi_file, track_index,
                   event_index, track_state, cur, working_tracks, track_index_used,
                   tracks>>

\* Lines 794-801: the file's tempo, then the loop over file_tracks is entered.
\* tempo_tracks[0][0] raises IndexError when the list holds no record.
SetTempo ==
    /\ pc = "tempo"
    /\ IF Len(tempo_tracks) = 1 /\ tempo_tracks[1] = <<>>
       THEN Raise(IndexError) /\ UNCHANGED midi_file
       ELSE /\ midi_file' = [midi_file EXCEPT !.tempo =
                                IF Len(tempo_tracks) = 1 THEN tempo_tracks[1][1].tempo
                                ELSE SentinelTempo]
            /\ pc' = IF file_tracks = <<>> THEN "split" ELSE "assemble"
            /\ UNCHANGED err
    /\ UNCHANGED <<memory_map, pos, running_status, events, tempo_tracks, track_index,
                   event_index, track_state, cur, working_tracks, track_index_used,
                   tracks>>

CurrentTrack == file_tracks[track_index + 1]
CurrentEvent == CurrentTrack[event_index]
Assembling == pc = "assemble"

\* Line 813: track_state.update_time(track_index, tempo_map, event.delta_time)
TimeUpdated ==
    update_time(track_state, tempo_tracks, midi_file.midi_format, track_index,
                CurrentEvent.delta_time)

\* A faulty variant of EndOfTrackLoop: the MIDITrack is given the index of
\* the raw track (track_index) instead of track_index_used.
EndOfTrackLoop_raw_index(ts, locals) ==
    LET kept == locals.notes_used # <<>> IN
    /\ working_tracks' =
          IF kept
          THEN Append(working_tracks,
                      MIDITrack(locals.track_name, track_index, locals.min_note,
                                locals.max_note, locals.min_velo, locals.max_velo,
                                locals.notes, locals.notes_used))
          ELSE working_tracks
    /\ track_index_used' = IF kept THEN track_index_used + 1 ELSE track_index_used
    /\ IF track_index + 1 < Len(file_tracks)
       THEN /\ track_index' = track_index + 1
            /\ event_index' = 1
            /\ track_state' = NewTrackState
            /\ cur' = NewTrackLocals
            /\ pc' = "assemble"
       ELSE /\ track_state' = ts
            /\ cur' = locals
            /\ pc' = "split"
            /\ UNCHANGED <<track_index, event_index>>

\* A faulty variant of EndOfTrackLoop: the next track goes on with the
\* TrackState of the track that ended.
EndOfTrackLoop_keeping_state(ts, locals) ==
    LET kept == locals.notes_used # <<>> IN
    /\ working_tracks' =
          IF kept
          THEN Append(working_tracks,
                      MIDITrack(locals.track_name, track_index_used, locals.min_note,
                                locals.max_note, locals.min_velo, locals.max_velo,
                                locals.notes, locals.notes_used))
          ELSE working_tracks
    /\ track_index_used' = IF kept THEN track_index_used + 1 ELSE track_index_used
    /\ IF track_index + 1 < Len(file_tracks)
       THEN /\ track_index' = track_index + 1
            /\ event_index' = 1
            /\ track_state' = ts
            /\ cur' = NewTrackLocals
            /\ pc' = "assemble"
       ELSE /\ track_state' = ts
            /\ cur' = locals
            /\ pc' = "split"
            /\ UNCHANGED <<track_index, event_index>>

\* Lines 833-836, reached after a track's last event, and lines 803-811 for
\* the track that follows.
EndOfTrackLoop(ts, locals) ==
    LET kept == locals.notes_used # <<>> IN
    /\ working_tracks' =
          IF kept
          THEN Append(working_tracks,
                      MIDITrack(locals.track_name, track_index_used, locals.min_note,
                                locals.max_note, locals.min_velo, locals.max_velo,
                                locals.notes, locals.notes_used))
          ELSE working_tracks
    /\ track_index_used' = IF kept THEN track_index_used + 1 ELSE track_index_used
    /\ IF track_index + 1 < Len(file_tracks)
       THEN /\ track_index' = track_index + 1
            /\ event_index' = 1
            /\ track_state' = NewTrackState
            /\ cur' = NewTrackLocals
            /\ pc' = "assemble"
       ELSE /\ track_state' = ts
            /\ cur' = locals
            /\ pc' = "split"
            /\ UNCHANGED <<track_index, event_index>>

\* The end of one iteration of `for event in track.events`.
NextEvent(ts, locals) ==
    /\ IF event_index < Len(CurrentTrack)
       THEN /\ track_state' = ts
            /\ cur' = locals
            /\ event_index' = event_index + 1
            /\ UNCHANGED <<pc, track_index, working_tracks, track_index_used>>
       ELSE EndOfTrackLoop(ts, locals)
    /\ UNCHANGED <<memory_map, pos, running_status, events, midi_file, tempo_tracks,
                   err, tracks>>

\* Lines 814-815
TrackNameStep ==
    /\ Assembling
    /\ CurrentEvent.type = "TrackName"
    /\ NextEvent(TimeUpdated, [cur EXCEPT !.track_name = CurrentEvent.name])

\* A faulty variant of note_on_locals: the pitch is appended to notes_used
\* without the `not in` test.
note_on_locals_appending(locals, event) ==
    [locals EXCEPT
        !.min_note = Min(@, event.note),
        !.max_note = Max(@, event.note),
        !.min_velo = Min(@, event.velocity * VelocityDivisor),
        !.max_velo = Max(@, event.velocity * VelocityDivisor),
        !.notes_used = Append(@, event.note)]

\* Lines 816-823
note_on_locals(locals, event) ==
    [locals EXCEPT
        !.min_note = Min(@, event.note),
        !.max_note = Max(@, event.note),
        !.min_velo = Min(@, event.velocity * VelocityDivisor),
        !.max_velo = Max(@, event.velocity * VelocityDivisor),
        !.notes_used = IF Contains(@, event.note) THEN @ ELSE Append(@, event.note)]

NoteOnStep ==
    /\ Assembling
    /\ CurrentEvent.type = "NoteOn"
    /\ NextEvent(record_note_on(TimeUpdated, CurrentEvent),
                 note_on_locals(cur, CurrentEvent))

\* A faulty variant of note_off_locals: the Note is put at the head of the
\* list.
note_off_locals_prepending(locals, ts, event, note_on_record) ==
    [locals EXCEPT
        !.notes = <<MIDINote(event.channel, event.note, note_on_record.time,
                             ts.time_in_seconds, note_on_record.velocity)>> \o @,
        !.min_duration_in_ticks = Min(@, ts.time_in_ticks - note_on_record.ticks)]

\* Lines 827-832, for a note_on_record that is not None.
note_off_locals(locals, ts, event, note_on_record) ==
    [locals EXCEPT
        !.notes = Append(@, MIDINote(event.channel, event.note, note_on_record.time,
                                     ts.time_in_seconds, note_on_record.velocity)),
        !.min_duration_in_ticks = Min(@, ts.time_in_ticks - note_on_record.ticks)]

\* Lines 824-832: the state and locals a NoteOff event leaves, or the error.
note_off(ts, locals, event) ==
    LET r == get_corresponding_note_on_record(ts, event) IN
    [err |-> r.err, state |-> r.state,
     locals |-> IF r.err # NoError \/ r.record = NoRecord THEN locals
                ELSE note_off_locals(locals, r.state, event, r.record)]

NoteOffStep ==
    /\ Assembling
    /\ CurrentEvent.type = "NoteOff"
    /\ LET r == note_off(TimeUpdated, cur, CurrentEvent) IN
       IF r.err # NoError
       THEN /\ Raise(r.err)
            /\ track_state' = TimeUpdated
            /\ UNCHANGED <<memory_map, pos, running_status, events, midi_file,
                           tempo_tracks, track_index, event_index, cur, working_tracks,
                           track_index_used, tracks>>
       ELSE NextEvent(r.state, r.locals)

\* Every other event class only moves the track's time.
OtherEventStep ==
    /\ Assembling
    /\ CurrentEvent.type \notin {"TrackName", "NoteOn", "NoteOff"}
    /\ NextEvent(TimeUpdated, cur)

(***************************************************************************)
(* Lines 837-863: the format-0 channel split, or the working tracks as     *)
(* they are.                                                               *)
(***************************************************************************)
\* A faulty variant of ChannelNotes: the `note.channel == channel` test is
\* dropped.
ChannelNotes_unfiltered(notes, channel) == notes

ChannelNotes(notes, channel) == SelectSeq(notes, LAMBDA n : n.channel = channel)

\* Lines 841-855 for one channel: the MIDITrack fields accumulated over the
\* channel's notes (note.velocity is the normalised velocity).
RECURSIVE channel_locals(_, _, _)
channel_locals(notes, i, locals) ==
    IF i > Len(notes) THEN locals
    ELSE LET note == notes[i] IN
         channel_locals(notes, i + 1,
            [locals EXCEPT
                !.notes = Append(@, note),
                !.min_note = Min(@, note.note_number),
                !.max_note = Max(@, note.note_number),
                !.min_velo = Min(@, note.velocity),
                !.max_velo = Max(@, note.velocity),
                !.notes_used = IF Contains(@, note.note_number) THEN @
                               ELSE Append(@, note.note_number)])

\* str(channel) in character codes
Decimal(n) == IF n < 10 THEN <<48 + n>> ELSE <<48 + (n \div 10), 48 + (n % 10)>>

\* f"{working_tracks[0].name}-ch{channel}"
ChannelTrackName(name, channel) == name \o <<45, 99, 104>> \o Decimal(channel)

RECURSIVE split_channels(_, _, _)
split_channels(track, channel, out) ==
    IF channel >= ChannelCount THEN out
    ELSE LET l == channel_locals(ChannelNotes(track.notes, channel), 1, NewTrackLocals) IN
         split_channels(track, channel + 1,
            IF l.notes_used # <<>>
            THEN Append(out, MIDITrack(ChannelTrackName(track.name, channel), Len(out),
                                       l.min_note, l.max_note, l.min_velo, l.max_velo,
                                       l.notes, l.notes_used))
            ELSE out)

SplitOrReturn ==
    /\ pc = "split"
    /\ IF midi_file.midi_format = 0
       THEN IF working_tracks = <<>>
            THEN /\ Raise(IndexError)
                 /\ track_index_used' = 0
                 /\ UNCHANGED tracks
            ELSE /\ tracks' = split_channels(working_tracks[1], 0, <<>>)
                 /\ track_index_used' = Len(tracks')
                 /\ pc' = "done"
                 /\ UNCHANGED err
       ELSE /\ tracks' = working_tracks
            /\ pc' = "done"
            /\ UNCHANGED <<err, track_index_used>>
    /\ UNCHANGED <<memory_map, pos, running_status, events, midi_file, tempo_tracks,
                   track_index, event_index, track_state, cur, working_tracks>>

Next ==
    \/ FromFile
    \/ BuildTempoMap
    \/ SetTempo
    \/ TrackNameStep
    \/ NoteOnStep
    \/ NoteOffStep
    \/ OtherEventStep
    \/ SplitOrReturn

Spec == Init /\ [][Next]_vars

\* read_midi_file on the files of the second family.
InitEdge ==
    /\ \E t \in 0..MaxTracks : memory_map \in EdgeFilesOfTracks(t)
    /\ pc = "from_file"
    /\ InitCommon

SpecEdge == InitEdge /\ [][Next]_vars

(***************************************************************************)
(* parse_events as a state machine over raw bytes: one step per call of    *)
(* parse_event (lines 658-665).                                            *)
(***************************************************************************)
ByteAlphabet == {0, 10, 47, 60, 144, 192, 244, 255}

\* A variable-length quantity of the generated bytes has at most four bytes,
\* the longest the file format allows: no five bytes in a row of which the
\* first four have the high bit set.
VlqWidthBounded(bytes) ==
    \A i \in 1..(Len(bytes) - 4) : \E j \in i..(i + 3) : bytes[j] < 128

InitParse ==
    /\ \E n \in 0..MaxBytes : memory_map \in [1..n -> ByteAlphabet]
    /\ VlqWidthBounded(memory_map)
    /\ pc = "parse_events"
    /\ InitCommon

\* A faulty variant of ParseEvent: the loop is left on the EndOfTrackEvent
\* before it is appended.
ParseEvent_break_before_append ==
    /\ pc = "parse_events"
    /\ LET r == parse_event(memory_map, pos, running_status) IN
       /\ pos' = r.pos
       /\ running_status' = r.running_status
       /\ IF r.err # NoError
          THEN Raise(r.err) /\ UNCHANGED events
          ELSE /\ events' = IF r.event.type = "EndOfTrack" THEN events
                            ELSE Append(events, r.event)
               /\ pc' = IF r.event.type = "EndOfTrack" THEN "parsed" ELSE "parse_events"
               /\ UNCHANGED err
    /\ UNCHANGED <<memory_map, midi_file, tempo_tracks, track_index, event_index,
                   track_state, cur, working_tracks, track_index_used, tracks>>

\* A faulty variant of ParseEvent: the loop is also left on a TempoEvent.
ParseEvent_stop_on_meta ==
    /\ pc = "parse_events"
    /\ LET r == parse_event(memory_map, pos, running_status) IN
       /\ pos' = r.pos
       /\ running_status' = r.running_status
       /\ IF r.err # NoError
          THEN Raise(r.err) /\ UNCHANGED events
          ELSE /\ events' = Append(events, r.event)
               /\ pc' = IF r.event.type \in {"EndOfTrack", "Tempo"}
                        THEN "parsed" ELSE "parse_events"
               /\ UNCHANGED err
    /\ UNCHANGED <<memory_map, midi_file, tempo_tracks, track_index, event_index,
                   track_state, cur, working_tracks, track_index_used, tracks>>

\* Lines 661-664: event = parse_event(...); events.append(event); break on
\* EndOfTrackEvent.  An exception leaves the loop before the append.
ParseEvent ==
    /\ pc = "parse_events"
    /\ LET r == parse_event(memory_map, pos, running_status) IN
       /\ pos' = r.pos
       /\ running_status' = r.running_status
       /\ IF r.err # NoError
          THEN Raise(r.err) /\ UNCHANGED events
          ELSE /\ events' = Append(events, r.event)
               /\ pc' = IF r.event.type = "EndOfTrack" THEN "parsed" ELSE "parse_events"
               /\ UNCHANGED err
    /\ UNCHANGED <<memory_map, midi_file, tempo_tracks, track_index, event_index,
                   track_state, cur, working_tracks, track_index_used, tracks>>

NextParse == ParseEvent

SpecParse == InitParse /\ [][NextParse]_vars

(***************************************************************************)
(* parse_events on an event whose delta time is the encoding of a chosen   *)
(* value: unpack_vlq applied to every length of encoding.                  *)
(***************************************************************************)
\* Values around the ends of the 1-, 2-, 3- and 4-byte ranges.
VlqValues ==
    { v \in { b * (128 ^ k) + d : k \in 0..3, b \in {1, 2, 127, 128}, d \in {-1, 0, 1} } :
          v >= 0 /\ v < 128 ^ 4 }

\* What follows the delta time: a Program event, an EndOfTrack event, a
\* NoteOn event, a data byte without status.
VlqTails == { <<192, 0>>, <<255, 47, 0>>, <<144, 60, 64>>, <<60>> }

InitVlq ==
    /\ \E v \in VlqValues, tail \in VlqTails : memory_map = EncodeVlq(v) \o tail
    /\ pc = "parse_events"
    /\ InitCommon

SpecVlq == InitVlq /\ [][NextParse]_vars

(***************************************************************************)
(* MIDIFile.from_file as a state machine over the bytes of a file: the     *)
(* header (parse_header), then for each track of parse_tracks its chunk    *)
(* header and one step per call of parse_event.  midi_file.tracks holds    *)
(* the tracks the list comprehension of parse_tracks has built so far.     *)
(***************************************************************************)
TracksCount == parse_header(memory_map).tracks_count

\* Lines 702-704: parse_header.
ParseHeader ==
    /\ pc = "parse_header"
    /\ LET h == parse_header(memory_map) IN
       /\ pos' = h.pos
       /\ IF h.err # NoError
          THEN Raise(h.err) /\ UNCHANGED midi_file
          ELSE /\ midi_file' = [midi_format |-> h.midi_format, ppqn |-> h.ppqn,
                                tempo |-> InitialTempo, tracks |-> <<>>]
               /\ pc' = "parse_tracks"
               /\ UNCHANGED err
    /\ UNCHANGED <<memory_map, running_status, events, tempo_tracks, track_index,
                   event_index, track_state, cur, working_tracks, track_index_used,
                   tracks>>

\* Lines 677-678 and 659-660 for the next track of parse_tracks: the chunk
\* header is read, then parse_events starts with an empty list and a fresh
\* MidiParseState.
ParseTrackHeader ==
    /\ pc = "parse_tracks"
    /\ Len(midi_file.tracks) < TracksCount
    /\ LET h == parse_track_header(memory_map, pos) IN
       /\ pos' = h.pos
       /\ IF h.err # NoError
          THEN Raise(h.err) /\ UNCHANGED <<running_status, events>>
          ELSE /\ running_status' = Unset
               /\ events' = <<>>
               /\ pc' = "parse_events"
               /\ UNCHANGED err
    /\ UNCHANGED <<memory_map, midi_file, tempo_tracks, track_index, event_index,
                   track_state, cur, working_tracks, track_index_used, tracks>>

\* Lines 665, 680 and 691: parse_events returns its list, which becomes the
\* next element of the track list.
TrackParsed ==
    /\ pc = "parsed"
    /\ midi_file' = [midi_file EXCEPT !.tracks = Append(@, events)]
    /\ pc' = "parse_tracks"
    /\ UNCHANGED <<memory_map, pos, running_status, events, tempo_tracks, err,
                   track_index, event_index, track_state, cur, working_tracks,
                   track_index_used, tracks>>

NextFile ==
    \/ ParseHeader
    \/ ParseTrackHeader
    \/ ParseEvent
    \/ TrackParsed

\* Every track of the header's count has been parsed: from_file returns.
FileRead == pc = "parse_tracks" /\ Len(midi_file.tracks) = TracksCount

InitFileCommon ==
    /\ pc = "parse_header"
    /\ InitCommon

(***************************************************************************)
(* Files whose events are written with or without their status byte        *)
(* (running status).                                                       *)
(***************************************************************************)
MaxRun == 3

\* Events as a delta time, a status byte and the bytes after it: NoteOn,
\* NoteOn of velocity 0, NoteOff, Program on another channel, TrackName.
StatusAlphabet ==
    { [delta |-> 0, status |-> 144, data |-> <<60, 64>>],
      [delta |-> 96, status |-> 144, data |-> <<60, 0>>],
      [delta |-> 96, status |-> 128, data |-> <<60, 64>>],
      [delta |-> 0, status |-> 193, data |-> <<5>>],
      [delta |-> 0, status |-> 255, data |-> <<3, 1, 84>>] }

ExplicitBytes(e) == EncodeVlq(e.delta) \o <<e.status>> \o e.data
RunningBytes(e) == EncodeVlq(e.delta) \o e.data

\* A track body written twice: every status byte written (explicit), and
\* some status bytes left out (running).  A status byte may be left out when
\* the event before it has the same status, and also on the first event of
\* the track, where no status has been read yet.
RECURSIVE StatusBodies(_)
StatusBodies(n) ==
    IF n = 0 THEN { [explicit |-> <<>>, running |-> <<>>, last |-> Unset] }
    ELSE { [explicit |-> b.explicit \o ExplicitBytes(e),
            running |-> b.running \o (IF omit THEN RunningBytes(e) ELSE ExplicitBytes(e)),
            last |-> e.status]
           : <<b, e, omit>> \in
               { t \in StatusBodies(n - 1) \X StatusAlphabet \X BOOLEAN :
                     t[3] => (t[1].last = Unset \/ t[1].last = t[2].status) } }

StatusBodiesUpTo(n) == UNION { StatusBodies(k) : k \in 1..n }

\* The track bodies of 1 to MaxRun events.
AllStatusBodies == StatusBodiesUpTo(MaxRun)

\* One track of up to MaxRun events, or that track followed by a track of
\* one event.
RunningFiles ==
    { HeaderBytes(1, 1, 480) \o ChunkBytes(a.running) : a \in AllStatusBodies }
    \cup { HeaderBytes(1, 2, 480) \o ChunkBytes(a.running) \o ChunkBytes(b.running)
           : a \in AllStatusBodies, b \in StatusBodies(1) }

InitRunning ==
    /\ memory_map \in RunningFiles
    /\ InitFileCommon

SpecRunning == InitRunning /\ [][NextFile]_vars

\* from_file of the whole file and the steps above agree.
StepsAgreeWithFromFile ==
    /\ FileRead => /\ from_file(memory_map).err = NoError
                   /\ from_file(memory_map).file = midi_file
                   /\ from_file(memory_map).pos = pos
    /\ pc = "error" => from_file(memory_map).err = err

(***************************************************************************)
(* Files of meta events, each written with its type byte, the length it    *)
(* declares and that many payload bytes.                                   *)
(***************************************************************************)
\* SequenceNumber with its two bytes and in its short form, TrackName, Tempo
\* with three bytes and with four, KeySignature, Sequencer.
MetaAlphabet ==
    { [type |-> 0, payload |-> <<0, 7>>],
      [type |-> 0, payload |-> <<>>],
      [type |-> 3, payload |-> <<84>>],
      [type |-> 81, payload |-> <<7, 161, 32>>],
      [type |-> 81, payload |-> <<7, 161, 32, 0>>],
      [type |-> 89, payload |-> <<0, 0>>],
      [type |-> 127, payload |-> <<0, 65>>] }

MetaBytes(e) == <<0, 255, e.type>> \o EncodeVlq(Len(e.payload)) \o e.payload

MetaBodies(n) == { Flatten([k \in 1..n |-> MetaBytes(b[k])]) : b \in [1..n -> MetaAlphabet] }

MetaFiles ==
    { HeaderBytes(1, 1, 480) \o ChunkBytes(body)
      : body \in UNION { MetaBodies(n) : n \in 1..MaxRun } }

InitMeta ==
    /\ memory_map \in MetaFiles
    /\ InitFileCommon

SpecMeta == InitMeta /\ [][NextFile]_vars

(***************************************************************************)
(* Files whose track chunks declare a length that is or is not the length  *)
(* of their events, and may hold bytes after their EndOfTrack event.       *)
(***************************************************************************)
ChunkEventAlphabet == { NoteOnBytes(0, 0, 60, 64), TempoBytes(0, 500000) }

ChunkBodies ==
    UNION { { Flatten(b) : b \in [1..n -> ChunkEventAlphabet] } : n \in 0..(MaxRun - 1) }

\* A chunk: the identifier, a declared length, the events, EndOfTrack, and
\* what is left of the chunk after it.
ChunkOfLength(length, body, rest) ==
    <<77, 84, 114, 107, 0, 0>> \o U16(length) \o body \o EndOfTrackBytes \o rest

ChunkRests == { <<>>, <<0, 0>> }

Chunks ==
    { ChunkOfLength(l, c[1], c[2])
      : l \in { 0, 65535 }, c \in ChunkBodies \X ChunkRests }
    \cup { ChunkOfLength(Len(c[1]) + 4, c[1], c[2]) : c \in ChunkBodies \X ChunkRests }

ChunkFiles ==
    { HeaderBytes(1, 1, 480) \o a : a \in Chunks }
    \cup { HeaderBytes(1, 2, 480) \o a \o b : a \in Chunks, b \in Chunks }

InitChunks ==
    /\ memory_map \in ChunkFiles
    /\ InitFileCommon

SpecChunks == InitChunks /\ [][NextFile]_vars

(***************************************************************************)
(* stuff.py: determine_global_ranges over glb.tracks, the tracks           *)
(* read_midi_file returned.                                                *)
(***************************************************************************)
\* stats['time_min'] starts at 1000 seconds, which no time of the model
\* reaches (1000 * ppqn * 1000000 model units): min(1000, t) is t.  A
\* time_min is either these 1000 seconds or a time in model units.
InitialTimeMin == [seconds |-> 1000, units |-> 0]

ModelTime(t) == [seconds |-> 0, units |-> t]

min_time(stat, t) ==
    IF stat = InitialTimeMin THEN ModelTime(t) ELSE ModelTime(Min(stat.units, t))

InitialStats ==
    [err |-> NoError, note_min |-> InitialMinNote, note_max |-> InitialMaxNote,
     time_min |-> InitialTimeMin, time_max |-> 0]

\* Lines 175-181 for one track: track.notes[0] and track.notes[-1] raise
\* IndexError when the track has no note.
stats_update(stats, track) ==
    IF stats.err # NoError THEN stats
    ELSE IF track.notes = <<>> THEN [stats EXCEPT !.err = IndexError]
    ELSE [stats EXCEPT
             !.note_min = Min(@, track.min_note),
             !.note_max = Max(@, track.max_note),
             !.time_min = min_time(@, track.notes[1].time_on),
             !.time_max = Max(@, track.notes[Len(track.notes)].time_off)]

RECURSIVE stats_of_tracks(_, _)
stats_of_tracks(trks, k) ==
    IF k = 0 THEN InitialStats ELSE stats_update(stats_of_tracks(trks, k - 1), trks[k])

determine_global_ranges(trks) == stats_of_tracks(trks, Len(trks))

(***************************************************************************)
(* Properties.  Times are in model units (seconds * ppqn * 1000000).       *)
(***************************************************************************)
\* The tick an event of a track falls on: the sum of the delta times up to it.
RECURSIVE TicksAt(_, _)
TicksAt(evs, i) == IF i = 0 THEN 0 ELSE TicksAt(evs, i - 1) + evs[i].delta_time

\* The time read_midi_file gives to the i-th event of the current track.
TimeAt(i) ==
    time_in_ticks_to_seconds(tempo_tracks, midi_file.midi_format, track_index,
                             TicksAt(CurrentTrack, i))

\* The event read_midi_file is about to handle is a NoteOff whose key the
\* pending-note table does not hold.
OrphanNoteOff ==
    /\ Assembling
    /\ CurrentEvent.type = "NoteOff"
    /\ Key(CurrentEvent) \notin DOMAIN track_state.note_on_table

\* C1: a NoteOff whose (channel, pitch) key is absent from the pending-note
\* table is ignored: the step emits no Note, leaves the table unchanged,
\* raises no error, and assembly goes on with the next event of the track.
C1_OrphanNoteOffIgnored ==
    [][OrphanNoteOff =>
          /\ pc' = "assemble"
          /\ err' = NoError
          /\ cur'.notes = cur.notes
          /\ track_state'.note_on_table = track_state.note_on_table
          /\ track_index' = track_index
          /\ event_index' = event_index + 1]_vars

\* The file of C2: one track holding NoteOn(ch 0, pitch 60, vel 64) at tick 0
\* and NoteOff(ch 0, pitch 60) at tick 480, ppqn 480, no Tempo event.
NoTempoExample(midi_format) ==
    HeaderBytes(midi_format, 1, 480)
        \o ChunkBytes(NoteOnBytes(0, 0, 60, 64) \o NoteOffBytes(480, 0, 60, 64))

\* C2: for the file without Tempo event, read_midi_file completes, and it
\* returns one track holding exactly one Note, from 0.0 s to 0.5 s (480
\* ticks at the default tempo of 500000), of velocity 64/127.
C2_DefaultTempoExample ==
    (\E f \in {0, 2} : memory_map = NoTempoExample(f)) =>
        /\ pc # "error"
        /\ pc = "done" =>
              /\ Len(tracks) = 1
              /\ tracks[1].notes = << MIDINote(0, 60, 0, 480 * DefaultTempo, 64) >>

(***************************************************************************)
(* C3.  The events of the current track on the key of its j-th event, a    *)
(* NoteOff, seen as a block: the m NoteOffs that end at j, the n NoteOns    *)
(* right before them, and whether the key was free before the block (as    *)
(* many NoteOffs as NoteOns on it).                                        *)
(***************************************************************************)
OnKey(evs, i, key) == evs[i].type \in {"NoteOn", "NoteOff"} /\ Key(evs[i]) = key

KeyIndices(evs, j) ==
    SelectSeq([i \in 1..j |-> i], LAMBDA i : OnKey(evs, i, Key(evs[j])))

RECURSIVE TrailingRun(_, _, _, _)
TrailingRun(evs, K, l, type) ==
    IF l = 0 \/ evs[K[l]].type # type THEN 0
    ELSE 1 + TrailingRun(evs, K, l - 1, type)

RECURSIVE PendingCount(_, _, _)
PendingCount(evs, K, l) ==
    IF l = 0 THEN 0
    ELSE PendingCount(evs, K, l - 1) + (IF evs[K[l]].type = "NoteOn" THEN 1 ELSE -1)

StackedBlock(evs, j) ==
    LET K == KeyIndices(evs, j)
        m == TrailingRun(evs, K, Len(K), "NoteOff")
        n == TrailingRun(evs, K, Len(K) - m, "NoteOn")
    IN  [m |-> m, n |-> n,
         first |-> IF n = 0 THEN 0 ELSE K[Len(K) - m - n + 1],
         last_on |-> IF n = 0 THEN 0 ELSE K[Len(K) - m],
         free_before |-> PendingCount(evs, K, Len(K) - m - n) = 0]

\* What C3 asks of the step that handles the m-th NoteOff of a block of n
\* NoteOns and then NoteOffs on a key that was free before it.
StackedStep(b) ==
    (b.free_before /\ b.n >= 1 /\ b.m <= b.n) =>
        /\ pc' = "assemble"
        /\ b.m < b.n => cur'.notes = cur.notes
        /\ b.m = b.n =>
              cur'.notes =
                  Append(cur.notes,
                         MIDINote(CurrentEvent.channel, CurrentEvent.note, TimeAt(b.first),
                                  TimeAt(event_index), CurrentTrack[b.first].velocity))

\* C3: n NoteOns on one key followed by n NoteOffs on it yield exactly one
\* Note, emitted at the n-th NoteOff, with the time_on and velocity of the
\* first NoteOn and the time_off of the last NoteOff; the first n-1 NoteOffs
\* emit nothing.
C3_StackedNoteOnsYieldOneNote ==
    [][(Assembling /\ CurrentEvent.type = "NoteOff") =>
           StackedStep(StackedBlock(CurrentTrack, event_index))]_vars

\* A block of two NoteOns of different velocity and two NoteOffs has just
\* been closed, and its Note emitted.
C3_Witness ==
    /\ Assembling
    /\ event_index > 1
    /\ CurrentTrack[event_index - 1].type = "NoteOff"
    /\ LET b == StackedBlock(CurrentTrack, event_index - 1) IN
       /\ b.free_before /\ b.n = 2 /\ b.m = 2
       /\ CurrentTrack[b.first].velocity # CurrentTrack[b.last_on].velocity
       /\ cur.notes # <<>>
       /\ cur.notes[Len(cur.notes)].velocity = CurrentTrack[b.first].velocity

(***************************************************************************)
(* C4                                                                      *)
(***************************************************************************)
\* The latest record of a list whose tick is <= T, the synthetic record when
\* the list has none.
LatestRecord(tempo_events, T) ==
    IF \A i \in 1..Len(tempo_events) : tempo_events[i].time_in_ticks > T
    THEN TempoEventRecord(0, 0, DefaultTempo)
    ELSE tempo_events[CHOOSE i \in 1..Len(tempo_events) :
                          /\ tempo_events[i].time_in_ticks <= T
                          /\ \A k \in (i + 1)..Len(tempo_events) :
                                 tempo_events[k].time_in_ticks > T]

\* record.seconds + (T - record.tick) * tempo / ppqn / 1000000
SecondsFromLatest(tempo_events, T) ==
    LET r == LatestRecord(tempo_events, T) IN
    r.time_in_seconds + (T - r.time_in_ticks) * r.tempo

RemoveAt(seq, k) == SubSeq(seq, 1, k - 1) \o SubSeq(seq, k + 1, Len(seq))

\* The ticks at, right before and right after the records of a list, and 0.
ProbeTicks(tempo_events) ==
    {0} \cup { t \in { tempo_events[i].time_in_ticks + d :
                           i \in 1..Len(tempo_events), d \in {-1, 0, 1} } : t >= 0 }

TempoMapBuilt == pc \in {"tempo", "assemble", "split", "done"}

ConversionOfList(ti) ==
    LET tempo_events == tempo_tracks[ti + 1] IN
    \A T \in ProbeTicks(tempo_events) :
        /\ time_in_ticks_to_seconds(tempo_tracks, midi_file.midi_format, ti, T)
               = SecondsFromLatest(tempo_events, T)
        /\ \A k \in 1..Len(tempo_events) :
               T < tempo_events[k].time_in_ticks =>
                   time_in_ticks_to_seconds(tempo_tracks, midi_file.midi_format, ti, T)
                       = time_in_ticks_to_seconds(
                             [tempo_tracks EXCEPT ![ti + 1] = RemoveAt(tempo_events, k)],
                             midi_file.midi_format, ti, T)

\* C4: time_in_ticks_to_seconds converts a tick T from the latest tempo record
\* whose tick is <= T (the record tick 0, second 0, tempo 500000 when there
\* is none) as record.seconds + (T - record.tick) * tempo / ppqn / 1000000,
\* so a tick before a Tempo event converts as if that event were absent; the
\* time of the track being assembled is that conversion of its tick.
C4_LatestTempoRecordGoverns ==
    TempoMapBuilt =>
        /\ \A ti \in 0..(Len(tempo_tracks) - 1) : ConversionOfList(ti)
        /\ Assembling =>
              track_state.time_in_seconds =
                  SecondsFromLatest(
                      tempo_tracks[(IF midi_file.midi_format # 1 THEN track_index ELSE 0) + 1],
                      track_state.time_in_ticks)

\* A tempo list of two records of different tempo, and a track whose time is
\* past the second record.
C4_Witness ==
    /\ Assembling
    /\ Len(tempo_tracks) = 1
    /\ Len(tempo_tracks[1]) >= 2
    /\ tempo_tracks[1][1].tempo # tempo_tracks[1][2].tempo
    /\ tempo_tracks[1][1].time_in_ticks < tempo_tracks[1][2].time_in_ticks
    /\ track_state.time_in_ticks > tempo_tracks[1][2].time_in_ticks
    /\ cur.notes # <<>>

(***************************************************************************)
(* C5                                                                      *)
(***************************************************************************)
UsedChannels(notes) == { notes[i].channel : i \in 1..Len(notes) }

RECURSIVE Ascending(_)
Ascending(S) ==
    IF S = {} THEN <<>>
    ELSE LET least == CHOOSE x \in S : \A y \in S : x <= y IN
         <<least>> \o Ascending(S \ {least})

SplitOf(source, channels) ==
    /\ Len(tracks) = Len(channels)
    /\ \A i \in 1..Len(tracks) :
           /\ channels[i] \in 0..15
           /\ tracks[i].index = i - 1
           /\ tracks[i].name = source.name \o <<45, 99, 104>> \o Decimal(channels[i])
           /\ tracks[i].notes = SelectSeq(source.notes, LAMBDA n : n.channel = channels[i])

\* C5: what read_midi_file returns for a format-0 file is one Track per
\* channel that has a finalized note, in ascending channel order, indexed
\* 0, 1, ..., named "<name>-ch<channel>", each holding exactly the notes of
\* its channel in their original order.
C5_FormatZeroSplitByChannel ==
    (pc = "done" /\ midi_file.midi_format = 0) =>
        SplitOf(working_tracks[1], Ascending(UsedChannels(working_tracks[1].notes)))

\* A named format-0 track with notes on two channels has been split in two.
C5_Witness ==
    /\ pc = "done"
    /\ midi_file.midi_format = 0
    /\ working_tracks[1].name # <<>>
    /\ Cardinality(UsedChannels(working_tracks[1].notes)) = 2
    /\ Len(tracks) = 2
    /\ tracks[1].notes # tracks[2].notes

\* C6: no Track that read_midi_file returns has an empty notes list (a track
\* none of whose NoteOns is matched by a NoteOff is left out).
C6_NoReturnedTrackWithoutNotes ==
    pc = "done" => \A i \in 1..Len(tracks) : tracks[i].notes # <<>>

(***************************************************************************)
(* C7                                                                      *)
(***************************************************************************)
\* What the decoder returns for a NoteOn of velocity 0 written where `event`
\* is, on its channel and pitch.
DecodedNoteOnZero(event) ==
    parse_event(NoteOnBytes(event.delta_time, event.channel, event.note, 0), 0, Unset).event

NoZeroVelocity(notes) == \A i \in 1..Len(notes) : notes[i].velocity # 0

\* C7: no decoded event is a NoteOn of velocity 0; a NoteOn of velocity 0
\* in the place of a NoteOff is decoded as that NoteOff with velocity 0 and
\* handled by read_midi_file with the same outcome (notes, statistics,
\* pending table, error); no finalized Note has velocity 0.
C7_NoteOnZeroIsNoteOff ==
    /\ \A t \in 1..Len(midi_file.tracks) : \A i \in 1..Len(midi_file.tracks[t]) :
           ~(midi_file.tracks[t][i].type = "NoteOn" /\ midi_file.tracks[t][i].velocity = 0)
    /\ (Assembling /\ CurrentEvent.type = "NoteOff") =>
           /\ DecodedNoteOnZero(CurrentEvent) = [CurrentEvent EXCEPT !.velocity = 0]
           /\ note_off(TimeUpdated, cur, DecodedNoteOnZero(CurrentEvent))
                  = note_off(TimeUpdated, cur, CurrentEvent)
    /\ NoZeroVelocity(cur.notes)
    /\ \A i \in 1..Len(working_tracks) : NoZeroVelocity(working_tracks[i].notes)
    /\ \A i \in 1..Len(tracks) : NoZeroVelocity(tracks[i].notes)

\* A NoteOn of velocity 0, decoded as a NoteOff of velocity 0, has just
\* closed a note.
C7_Witness ==
    /\ Assembling
    /\ event_index > 1
    /\ CurrentTrack[event_index - 1].type = "NoteOff"
    /\ CurrentTrack[event_index - 1].velocity = 0
    /\ cur.notes # <<>>
    /\ cur.notes[Len(cur.notes)].channel = CurrentTrack[event_index - 1].channel
    /\ cur.notes[Len(cur.notes)].time_off = track_state.time_in_seconds

(***************************************************************************)
(* C8 (under SpecParse)                                                    *)
(***************************************************************************)
\* The error the decoder is to raise for a byte it has no event class for.
UnknownEventType(byte, offset) ==
    [kind |-> "UnknownEventType", arg |-> byte, offset |-> offset]

\* The status bytes no event class is defined for: 0xF1-0xF6 and 0xF8-0xFE.
UndefinedStatus == (241..246) \cup (248..254)

\* The byte at a 0-based offset of the file, -1 past its end.
ByteAt(offset) == IF offset < Len(memory_map) THEN memory_map[offset + 1] ELSE -1

\* The offset of the status byte of the event parse_event is about to read,
\* -1 when its delta time cannot be read.
StatusOffset ==
    LET d == unpack_vlq(memory_map, pos) IN
    IF d.err = NoError /\ d.pos < Len(memory_map) THEN d.pos ELSE -1

FailsAsUnknown(byte, offset) ==
    /\ pc' = "error"
    /\ err' = UnknownEventType(byte, offset)
    /\ events' = events

\* C8: an event whose status byte is one of 0xF1-0xF6, 0xF8-0xFE, or a meta
\* event whose type byte is not in the meta table, fails with an
\* unknown-event-type error carrying that byte and its offset, and no event
\* is appended.
C8_UnknownEventTypeRaised ==
    [][(pc = "parse_events" /\ StatusOffset # -1) =>
          /\ ByteAt(StatusOffset) \in UndefinedStatus =>
                 FailsAsUnknown(ByteAt(StatusOffset), StatusOffset)
          /\ (/\ ByteAt(StatusOffset) = 255
              /\ ByteAt(StatusOffset + 1) # -1
              /\ ByteAt(StatusOffset + 1) \notin DOMAIN meta_event_by_type) =>
                 FailsAsUnknown(ByteAt(StatusOffset + 1), StatusOffset + 1)]_vars

\* C9: read_midi_file sets the file's tempo to the tempo of the first record
\* of the tempo list when there is exactly one list and it is not empty, and
\* in every other case goes on with the sentinel value.
C9_NominalTempoOrSentinel ==
    [][pc = "tempo" =>
          /\ pc' # "error"
          /\ midi_file'.tempo =
                 IF Len(tempo_tracks) = 1 /\ tempo_tracks[1] # <<>>
                 THEN tempo_tracks[1][1].tempo
                 ELSE SentinelTempo]_vars

\* The tempos of the Tempo events of a track, in order.
TemposOf(evs) ==
    LET tempo_events == SelectSeq(evs, LAMBDA e : e.type = "Tempo") IN
    [i \in 1..Len(tempo_events) |-> tempo_events[i].tempo]

\* C10: for a file of format 0 or 2 with N tracks (stated here for N >= 1)
\* the tempo map is built with N lists, the list of track i holding exactly
\* the Tempo events of track i.
C10_OneTempoListPerTrack ==
    [][(pc = "tempo_map" /\ midi_file.midi_format # 1 /\ Len(midi_file.tracks) >= 1) =>
          /\ pc' # "error"
          /\ Len(tempo_tracks') = Len(midi_file.tracks)
          /\ \A i \in 1..Len(midi_file.tracks) :
                 [k \in 1..Len(tempo_tracks'[i]) |-> tempo_tracks'[i][k].tempo]
                     = TemposOf(midi_file.tracks[i])]_vars

(***************************************************************************)
(* C11, C12 (under SpecEdge)                                               *)
(***************************************************************************)
\* The notes read_midi_file holds: those of the track being assembled, of the
\* working tracks and of the returned tracks.
NotesOfTracks(trks) == UNION { { trks[i].notes[k] : k \in 1..Len(trks[i].notes) }
                               : i \in 1..Len(trks) }

AllNotes ==
    { cur.notes[k] : k \in 1..Len(cur.notes) }
        \cup NotesOfTracks(working_tracks) \cup NotesOfTracks(tracks)

\* C11: every Note that read_midi_file returns has its channel in 0..15, its
\* pitch in 0..127 and its velocity in [0, 1] (0..127 in 127ths).
C11_NoteFieldsInRange ==
    pc = "done" =>
        \A n \in NotesOfTracks(tracks) :
            /\ n.channel \in 0..15
            /\ n.note_number \in 0..127
            /\ n.velocity \in 0..VelocityDivisor

\* C12: every finalized Note has time_off >= time_on, whatever Tempo events
\* the file holds.
C12_NoteEndsAfterItStarts == \A n \in AllNotes : n.time_off >= n.time_on

\* A note has just been closed in a track governed by a tempo list that holds
\* two records at one tick, a record of tempo 0, and a record at a tick
\* inside the track's elapsed time.
C12_Witness ==
    /\ Assembling
    /\ event_index > 1
    /\ CurrentTrack[event_index - 1].type = "NoteOff"
    /\ cur.notes # <<>>
    /\ cur.notes[Len(cur.notes)].time_off > cur.notes[Len(cur.notes)].time_on
    /\ LET tempo_events == tempo_tracks[1] IN
       /\ \E i, j \in 1..Len(tempo_events) :
              i < j /\ tempo_events[i].time_in_ticks = tempo_events[j].time_in_ticks
       /\ \E k \in 1..Len(tempo_events) : tempo_events[k].tempo = 0
       /\ \E k \in 1..Len(tempo_events) :
              /\ tempo_events[k].time_in_ticks > 0
              /\ tempo_events[k].time_in_ticks < track_state.time_in_ticks

(***************************************************************************)
(* C13                                                                     *)
(***************************************************************************)
HasNoteOn(evs) == \E k \in 1..Len(evs) : evs[k].type = "NoteOn"

\* The raw tracks that hold a NoteOn, in file order.
TracksWithNoteOn == SelectSeq(file_tracks, HasNoteOn)

\* The raw velocities of the NoteOn events behind the i-th returned track: the
\* NoteOns of its channel for a format-0 file, those of the i-th raw track
\* that has any for the other formats.
ContributingVelocities(i) ==
    IF midi_file.midi_format = 0
    THEN { file_tracks[1][k].velocity :
               k \in { k \in 1..Len(file_tracks[1]) :
                           /\ file_tracks[1][k].type = "NoteOn"
                           /\ file_tracks[1][k].channel = tracks[i].notes[1].channel } }
    ELSE { TracksWithNoteOn[i][k].velocity :
               k \in { k \in 1..Len(TracksWithNoteOn[i]) :
                           TracksWithNoteOn[i][k].type = "NoteOn" } }

SetMin(S) == CHOOSE x \in S : \A y \in S : x <= y
SetMax(S) == CHOOSE x \in S : \A y \in S : x >= y

\* C13: min_velo and max_velo of every returned Track are the smallest and
\* the largest raw velocity (0-127 scale, v * 127 in 127ths) of the NoteOn
\* events that contributed to the Track, whatever the file format.
C13_RawVelocityStatistics ==
    pc = "done" =>
        \A i \in 1..Len(tracks) :
            /\ tracks[i].min_velo = SetMin(ContributingVelocities(i)) * VelocityDivisor
            /\ tracks[i].max_velo = SetMax(ContributingVelocities(i)) * VelocityDivisor

(***************************************************************************)
(* C14                                                                     *)
(***************************************************************************)
\* The used-pitch list of a raw track: the pitches of its NoteOn events, each
\* once, in the order they are first met.
RECURSIVE UsedPitches(_, _)
UsedPitches(evs, k) ==
    IF k = 0 THEN <<>>
    ELSE LET before == UsedPitches(evs, k - 1) IN
         IF evs[k].type = "NoteOn" /\ ~Contains(before, evs[k].note)
         THEN Append(before, evs[k].note)
         ELSE before

DenselyIndexed(trks) == \A i \in 1..Len(trks) : trks[i].index = i - 1

\* C14: the returned Tracks are the tracks whose used-pitch set is not empty,
\* in their original order, indexed 0, 1, ..., k-1: for formats 1 and 2 the
\* raw tracks that hold a NoteOn, for format 0 the channels that hold a note.
C14_KeptTracksDenselyIndexed ==
    pc = "done" =>
        /\ DenselyIndexed(tracks)
        /\ \A i \in 1..Len(tracks) : tracks[i].notes_used # <<>>
        /\ midi_file.midi_format = 0 =>
               Len(tracks) = Cardinality(UsedChannels(working_tracks[1].notes))
        /\ midi_file.midi_format # 0 =>
               /\ Len(tracks) = Len(TracksWithNoteOn)
               /\ \A i \in 1..Len(tracks) :
                      tracks[i].notes_used
                          = UsedPitches(TracksWithNoteOn[i], Len(TracksWithNoteOn[i]))

\* A raw track without NoteOn was dropped ahead of a track that was kept.
C14_Witness ==
    /\ pc = "done"
    /\ midi_file.midi_format # 0
    /\ Len(file_tracks) >= 2
    /\ ~HasNoteOn(file_tracks[1])
    /\ HasNoteOn(file_tracks[2])
    /\ Len(tracks) = 1
    /\ tracks[1].index = 0

(***************************************************************************)
(* C15 (under SpecParse)                                                   *)
(***************************************************************************)
\* The event list ends with an EndOfTrack event and holds no other.
EndsWithEndOfTrack(evs) ==
    /\ evs # <<>>
    /\ \A k \in 1..Len(evs) : (evs[k].type = "EndOfTrack") = (k = Len(evs))

\* The next call of parse_event either raises or moves the cursor forward,
\* within the buffer.
NextCallAdvances(r) == r.err # NoError \/ (r.pos > pos /\ r.pos <= Len(memory_map))

\* C15: parse_events always ends: the cursor never passes the end of the
\* buffer and, while the loop runs, the next parse_event either raises or
\* moves the cursor forward, so a buffer of n bytes allows at most n calls.
\* The loop runs only while no EndOfTrack has been met, what it returns ends
\* with the first EndOfTrack event, and every other end is an error.
C15_ParseEventsEnds ==
    /\ pos <= Len(memory_map)
    /\ pc = "parse_events" =>
           /\ NextCallAdvances(parse_event(memory_map, pos, running_status))
           /\ \A k \in 1..Len(events) : events[k].type # "EndOfTrack"
    /\ pc = "parsed" => EndsWithEndOfTrack(events)
    /\ pc = "error" => err # NoError
    /\ pc \in {"parse_events", "parsed", "error"}

\* The bytes ran out inside a variable-length quantity, after an event had
\* been decoded: parse_events ended with the error of the short read.
C15_Witness ==
    /\ pc = "error"
    /\ err = StructError
    /\ events # <<>>
    /\ pos = Len(memory_map)
    /\ memory_map[Len(memory_map)] >= 128

(***************************************************************************)
(* C16 (under SpecVlq)                                                     *)
(***************************************************************************)
IsPrefix(p, bytes) == Len(p) <= Len(bytes) /\ SubSeq(bytes, 1, Len(p)) = p

\* C16: decoding the encoding of v returns v and moves the cursor by the
\* number of bytes of the encoding (1 to 4), whatever follows it; the event
\* read from the buffer carries v as its delta time.
C16_UnpackVlqInvertsEncoding ==
    \A v \in VlqValues :
        IsPrefix(EncodeVlq(v), memory_map) =>
            /\ Len(EncodeVlq(v)) \in 1..4
            /\ unpack_vlq(memory_map, 0)
                   = [err |-> NoError, value |-> v, pos |-> Len(EncodeVlq(v))]
            /\ events # <<>> => events[1].delta_time = v

\* An event whose delta time is the largest 4-byte quantity has been read.
C16_Witness ==
    /\ events # <<>>
    /\ events[1].delta_time = 128 ^ 4 - 1
    /\ pos = Len(memory_map)
    /\ memory_map[1] = 255

(***************************************************************************)
(* C17                                                                     *)
(***************************************************************************)
\* The big-endian 16-bit number at a 0-based offset of the file.
HeaderWord(offset) == memory_map[offset + 1] * 256 + memory_map[offset + 2]

FileParsed == pc \in {"tempo_map", "tempo", "assemble", "split", "done"}

\* C17: the parsed file's midi_format and ppqn are the 16-bit big-endian
\* numbers at offsets 8 and 12 of the header, and it holds as many raw tracks
\* as the number at offset 10 says.
C17_HeaderFieldsParsed ==
    FileParsed =>
        /\ midi_file.midi_format = HeaderWord(8)
        /\ Len(midi_file.tracks) = HeaderWord(10)
        /\ midi_file.ppqn = HeaderWord(12)

\* A format-2 file of three tracks and ppqn 480 has been parsed.
C17_Witness ==
    /\ pc = "tempo_map"
    /\ midi_file.midi_format = 2
    /\ Len(midi_file.tracks) = 3
    /\ midi_file.ppqn = 480
    /\ pos = Len(memory_map)

(***************************************************************************)
(* C18                                                                     *)
(***************************************************************************)
\* C18: the copy of a track equals the track in every attribute, the list of
\* used pitches included.
C18_CopyEqualsOriginal ==
    pc = "done" =>
        \A i \in 1..Len(tracks) :
            /\ MIDITrack_copy(tracks[i]) = tracks[i]
            /\ MIDITrack_copy(tracks[i]).notes_used = tracks[i].notes_used

(***************************************************************************)
(* C19                                                                     *)
(***************************************************************************)
\* NoteOns minus NoteOffs on a key among events from..to of a track.
NoteOnsMinusNoteOffs(evs, from, to, key) ==
    Cardinality({ i \in from..to : evs[i].type = "NoteOn" /\ Key(evs[i]) = key })
    - Cardinality({ i \in from..to : evs[i].type = "NoteOff" /\ Key(evs[i]) = key })

\* The last point at or before event n where the key was absent: as many
\* NoteOffs as NoteOns on it so far.
LastAbsent(evs, n, key) ==
    CHOOSE a \in 0..n :
        /\ NoteOnsMinusNoteOffs(evs, 1, a, key) = 0
        /\ \A b \in (a + 1)..n : NoteOnsMinusNoteOffs(evs, 1, b, key) # 0

PendingEntryCounted(evs, n, table, key) ==
    /\ table[key].number_of_notes >= 1
    /\ table[key].number_of_notes =
           NoteOnsMinusNoteOffs(evs, LastAbsent(evs, n, key) + 1, n, key)

PendingTableCounted ==
    Assembling =>
        \A key \in DOMAIN track_state.note_on_table :
            PendingEntryCounted(CurrentTrack, event_index - 1,
                                track_state.note_on_table, key)

\* One step of a track's assembly, from table `old` to table `new`.
PendingTableStep(old, new) ==
    /\ \A key \in DOMAIN new \ DOMAIN old :
           CurrentEvent.type = "NoteOn" /\ Key(CurrentEvent) = key
    /\ \A key \in DOMAIN old \ DOMAIN new :
           /\ CurrentEvent.type = "NoteOff" /\ Key(CurrentEvent) = key
           /\ old[key].number_of_notes = 1
    /\ (DOMAIN old \ DOMAIN new # {}) <=> (Len(cur'.notes) = Len(cur.notes) + 1)
    /\ (DOMAIN old \ DOMAIN new = {}) <=> (cur'.notes = cur.notes)

\* C19: during a track's assembly every entry of note_on_table has a count
\* >= 1 equal to the NoteOns minus the NoteOffs on its key since the key was
\* last absent; an entry appears only at a NoteOn on an absent key and
\* disappears only at a NoteOff that finds its count at 1, which is exactly
\* when a Note is emitted.
C19_PendingTableInvariant ==
    /\ []PendingTableCounted
    /\ [][(Assembling /\ event_index < Len(CurrentTrack)) =>
              PendingTableStep(track_state.note_on_table,
                               track_state'.note_on_table)]_vars

\* After NoteOn, NoteOn, NoteOff on one key the entry is still pending with
\* count 1 and no Note has been emitted.
C19_Witness ==
    /\ Assembling
    /\ event_index = 4
    /\ CurrentTrack[1].type = "NoteOn"
    /\ CurrentTrack[2].type = "NoteOn"
    /\ CurrentTrack[3].type = "NoteOff"
    /\ Key(CurrentTrack[2]) = Key(CurrentTrack[1])
    /\ Key(CurrentTrack[3]) = Key(CurrentTrack[1])
    /\ Key(CurrentTrack[1]) \in DOMAIN track_state.note_on_table
    /\ track_state.note_on_table[Key(CurrentTrack[1])].number_of_notes = 1
    /\ cur.notes = <<>>

(***************************************************************************)
(* C20                                                                     *)
(***************************************************************************)
\* The record that precedes record k of a list: the synthetic record of
\* tick 0, time 0 and the default tempo before the first.
PrecedingRecord(tempo_events, k) ==
    IF k = 1 THEN TempoEventRecord(0, 0, DefaultTempo) ELSE tempo_events[k - 1]

TempoRecordFollows(prev, record) ==
    /\ record.time_in_ticks >= prev.time_in_ticks
    /\ record.time_in_seconds >= prev.time_in_seconds
    /\ record.time_in_seconds =
           prev.time_in_seconds
               + (record.time_in_ticks - prev.time_in_ticks) * prev.tempo

\* C20: in every list of tempo records the ticks and the seconds never
\* decrease in list order, and each record's seconds are those of the record
\* before it plus the ticks between the two at the earlier record's tempo.
C20_TempoRecordsContinuous ==
    \A i \in 1..Len(tempo_tracks) :
        \A k \in 1..Len(tempo_tracks[i]) :
            TempoRecordFollows(PrecedingRecord(tempo_tracks[i], k), tempo_tracks[i][k])

\* Three records: a tempo of 0 at tick 0, over which no time passes, then
\* two later tempo changes with time passing between them.
C20_Witness ==
    /\ TempoMapBuilt
    /\ Len(tempo_tracks) = 1
    /\ Len(tempo_tracks[1]) = 3
    /\ tempo_tracks[1][1].tempo = 0
    /\ tempo_tracks[1][2].time_in_ticks > tempo_tracks[1][1].time_in_ticks
    /\ tempo_tracks[1][2].time_in_seconds = tempo_tracks[1][1].time_in_seconds
    /\ tempo_tracks[1][3].time_in_ticks > tempo_tracks[1][2].time_in_ticks
    /\ tempo_tracks[1][3].time_in_seconds > tempo_tracks[1][2].time_in_seconds

(***************************************************************************)
(* C21                                                                     *)
(***************************************************************************)
\* The NoteOn events behind the i-th returned track: those of its channel in
\* the single raw track for a format-0 file, those of the i-th raw track that
\* has any for the other formats.
ContributingNoteOns(i) ==
    IF midi_file.midi_format = 0
    THEN { file_tracks[1][k] :
               k \in { k \in 1..Len(file_tracks[1]) :
                           /\ file_tracks[1][k].type = "NoteOn"
                           /\ file_tracks[1][k].channel = tracks[i].notes[1].channel } }
    ELSE { TracksWithNoteOn[i][k] :
               k \in { k \in 1..Len(TracksWithNoteOn[i]) :
                           TracksWithNoteOn[i][k].type = "NoteOn" } }

Range(seq) == { seq[k] : k \in 1..Len(seq) }

\* A velocity statistic that is the raw velocity v, on the 0-127 scale or
\* on the 0-1 scale.
VelocityStatistic(stat, v) == stat = v * VelocityDivisor \/ stat = v

StatisticsOfNoteOns(track, ons) ==
    /\ Range(track.notes_used) = { e.note : e \in ons }
    /\ track.min_note = SetMin({ e.note : e \in ons })
    /\ track.max_note = SetMax({ e.note : e \in ons })
    /\ VelocityStatistic(track.min_velo, SetMin({ e.velocity : e \in ons }))
    /\ VelocityStatistic(track.max_velo, SetMax({ e.velocity : e \in ons }))

ChunkStartAfter(mm, s) == s + 8 + BigEndian(SubSeq(mm, s + 5, s + 8))

RECURSIVE ChunkStart(_, _)
ChunkStart(mm, k) ==
    IF k = 0 THEN Len(HeaderBytes(0, 0, 0))
    ELSE ChunkStartAfter(mm, ChunkStart(mm, k - 1))

\* The event bytes of the chunk being parsed.
CurrentChunkBody ==
    SubSeq(memory_map, ChunkStart(memory_map, Len(midi_file.tracks)) + 9,
           ChunkStart(memory_map, Len(midi_file.tracks) + 1))

InTrack == pc \in {"parse_events", "parsed"} \/ (pc = "error" /\ pos > Len(HeaderBytes(0, 0, 0)))

\* The bytes of mm with byte b put in after the first p bytes.
InsertAt(mm, p, b) == SubSeq(mm, 1, p) \o <<b>> \o SubSeq(mm, p + 1, Len(mm))

\* The step that decodes an event from the running status equals, one byte
\* earlier, the decoding of the same bytes with the status byte written.
RunningStep(d, explicit) ==
    /\ explicit.err # NoError => pc' = "error" /\ err' = explicit.err
    /\ explicit.err = NoError =>
           /\ events' = Append(events, explicit.event)
           /\ pos' = explicit.pos - 1
           /\ running_status' = running_status
           /\ explicit.running_status = running_status

StatusIsData(d) ==
    d.err = NoError /\ d.pos < Len(memory_map) /\ memory_map[d.pos + 1] < 128

RunningStatusUsed(d) ==
    (pc = "parse_events" /\ StatusIsData(d) /\ running_status # Unset) =>
        RunningStep(d, parse_event(InsertAt(memory_map, d.pos, running_status), pos, Unset))

\* A track written with running status decodes to what the track with
\* every status byte written decodes to.
ExplicitOf ==
    [r \in { b.running : b \in { b \in AllStatusBodies : b.running[2] >= 128 } } |->
        (CHOOSE b \in AllStatusBodies : b.running[2] >= 128 /\ b.running = r).explicit]

SameAsExplicit(running) ==
    running \in DOMAIN ExplicitOf =>
        /\ parse_events(ExplicitOf[running] \o EndOfTrackBytes, 0).err = NoError
        /\ events = parse_events(ExplicitOf[running] \o EndOfTrackBytes, 0).events

\* A track that starts on a data byte decodes to nothing, whatever the
\* track before it left as its last status.
NothingCarriedOver ==
    (InTrack /\ CurrentChunkBody[2] < 128) =>
        /\ events = <<>>
        /\ pc # "parsed"
        /\ pc = "error" => err = AttributeError

\* C22: inside a track a byte with the high bit clear at the status position
\* is decoded with the last status byte read in that track, as the first
\* byte after the status; a track written with running status decodes to the
\* events of the same track with every status written; the status of one
\* track is never used in the next.
C22_RunningStatus ==
    /\ [][RunningStatusUsed(unpack_vlq(memory_map, pos))]_vars
    /\ [](pc = "parsed" =>
              SameAsExplicit(SubSeq(CurrentChunkBody, 1,
                                    Len(CurrentChunkBody) - Len(EndOfTrackBytes))))
    /\ []NothingCarriedOver

\* The first track was decoded with running status (a NoteOn, then a NoteOn
\* of velocity 0 without status byte, read as a NoteOff), and the second
\* track, which starts on a data byte, failed.
C22_Witness ==
    /\ pc = "error"
    /\ err = AttributeError
    /\ Len(midi_file.tracks) = 1
    /\ SubSeq(memory_map, 23, 29) = <<0, 144, 60, 64, 96, 60, 0>>
    /\ Len(midi_file.tracks[1]) = 3
    /\ midi_file.tracks[1][1].type = "NoteOn"
    /\ midi_file.tracks[1][2].type = "NoteOff"
    /\ midi_file.tracks[1][2].delta_time = 96
    /\ CurrentChunkBody[2] < 128
    /\ events = <<>>

(***************************************************************************)
(* C23 (under SpecMeta)                                                    *)
(***************************************************************************)
\* Where the cursor stands after a meta event: past the type byte, the
\* length and as many bytes as the length says.
AfterDeclaredPayload(length) == length.pos + length.value

MetaEventAt(d) ==
    /\ pc = "parse_events"
    /\ d.err = NoError
    /\ d.pos < Len(memory_map)
    /\ memory_map[d.pos + 1] = 255

\* C23: a meta event of any type of the table and of any declared length
\* leaves the cursor right after the declared payload.
C23_MetaEventConsumesDeclaredLength ==
    [][(MetaEventAt(unpack_vlq(memory_map, pos)) /\ pc' # "error") =>
           pos' = AfterDeclaredPayload(
                      unpack_vlq(memory_map, unpack_vlq(memory_map, pos).pos + 2))]_vars

(***************************************************************************)
(* C24 (under SpecChunks)                                                  *)
(***************************************************************************)
\* The offset of the first FF 2F 00 at or after offset `from`: the first
\* EndOfTrack event of the bytes that follow.
FirstEndOfTrack(mm, from) ==
    CHOOSE p \in from..(Len(mm) - 3) :
        /\ SubSeq(mm, p + 1, p + 3) = <<255, 47, 0>>
        /\ \A q \in from..(p - 1) : SubSeq(mm, q + 1, q + 3) # <<255, 47, 0>>

\* Where the k-th chunk (k from 0) starts when every chunk starts right
\* after the EndOfTrack event of the chunk before it.
RECURSIVE ChunkAfterEndOfTrack(_, _)
ChunkAfterEndOfTrack(mm, k) ==
    IF k = 0 THEN Len(HeaderBytes(0, 0, 0))
    ELSE FirstEndOfTrack(mm, ChunkAfterEndOfTrack(mm, k - 1) + 8) + 3

OneEndOfTrackAtEnd(evs) ==
    /\ evs # <<>>
    /\ evs[Len(evs)].type = "EndOfTrack"
    /\ \A k \in 1..(Len(evs) - 1) : evs[k].type # "EndOfTrack"

\* C24: every parsed track holds one EndOfTrack event, its last; a track
\* ends at its first EndOfTrack whatever length its chunk declares, and the
\* next chunk is read from the byte after it.
C24_TrackEndsAtFirstEndOfTrack ==
    /\ \A i \in 1..Len(midi_file.tracks) : OneEndOfTrackAtEnd(midi_file.tracks[i])
    /\ pc = "parsed" =>
           /\ OneEndOfTrackAtEnd(events)
           /\ pos = ChunkAfterEndOfTrack(memory_map, Len(midi_file.tracks) + 1)
    /\ pc = "parse_tracks" =>
           pos = ChunkAfterEndOfTrack(memory_map, Len(midi_file.tracks))
    /\ (pc = "parse_events" /\ events = <<>>) =>
           pos = ChunkAfterEndOfTrack(memory_map, Len(midi_file.tracks)) + 8

\* Two tracks have been read from a file whose first chunk declares a length
\* of 0 and whose second chunk declares 65535.
C24_Witness ==
    /\ FileRead
    /\ Len(midi_file.tracks) = 2
    /\ SubSeq(memory_map, 19, 22) = <<0, 0, 0, 0>>
    /\ Len(midi_file.tracks[1]) = 3
    /\ Len(midi_file.tracks[2]) = 1
    /\ SubSeq(memory_map, pos - 7, pos - 4) = <<0, 0, 255, 255>>
    /\ pos = Len(memory_map)

(***************************************************************************)
(* C25                                                                     *)
(***************************************************************************)
NonDecreasingTimeOff(notes) ==
    \A k \in 1..(Len(notes) - 1) : notes[k].time_off <= notes[k + 1].time_off

\* C25: in every returned Track the notes follow each other in the order
\* their NoteOff events came: time_off never decreases along the list.
C25_NotesOrderedByTimeOff ==
    /\ \A i \in 1..Len(working_tracks) : NonDecreasingTimeOff(working_tracks[i].notes)
    /\ Assembling => NonDecreasingTimeOff(cur.notes)
    /\ pc = "done" => \A i \in 1..Len(tracks) : NonDecreasingTimeOff(tracks[i].notes)

\* A returned Track whose second note started before its first: time_on
\* decreases along the list while time_off does not.
C25_Witness ==
    /\ pc = "done"
    /\ \E i \in 1..Len(tracks) :
           /\ Len(tracks[i].notes) = 2
           /\ tracks[i].notes[2].time_on < tracks[i].notes[1].time_on
           /\ tracks[i].notes[2].time_off > tracks[i].notes[1].time_off

(***************************************************************************)
(* C26                                                                     *)
(***************************************************************************)
\* No NoteOn on the key of event j among the events of the track before it.
NoNoteOnBefore(evs, j) ==
    \A k \in 1..(j - 1) : ~(evs[k].type = "NoteOn" /\ Key(evs[k]) = Key(evs[j]))

\* The track kept at the end of a track's events holds the Notes emitted so
\* far and nothing for the entries still pending.
PendingDropped ==
    (Assembling /\ event_index = Len(CurrentTrack) /\ working_tracks' # working_tracks) =>
        /\ Len(working_tracks') = Len(working_tracks) + 1
        /\ working_tracks'[Len(working_tracks')].notes = cur.notes

\* A NoteOff on a key without NoteOn in its own track emits nothing.
NotMatchedAcrossTracks ==
    (Assembling /\ CurrentEvent.type = "NoteOff"
         /\ NoNoteOnBefore(CurrentTrack, event_index)) =>
        /\ cur'.notes = cur.notes
        /\ working_tracks' = working_tracks

\* C26: the pending-note table belongs to one track: it is empty when a
\* track's assembly starts, the entries left at the end of the track's
\* events emit no Note, and a NoteOff is never matched with a NoteOn of an
\* earlier track.
C26_PendingTableLocalToTrack ==
    /\ []((Assembling /\ event_index = 1) => track_state = NewTrackState)
    /\ [][PendingDropped /\ NotMatchedAcrossTracks]_vars

\* The first note track left a NoteOn pending and was kept without Note; the
\* NoteOff on the same key in the next track found nothing to match.
C26_Witness ==
    /\ pc = "error"
    /\ err = KeyError(60)
    /\ track_index = 1
    /\ file_tracks[1][1].type = "NoteOn"
    /\ file_tracks[2][1].type = "NoteOff"
    /\ Key(file_tracks[2][1]) = Key(file_tracks[1][1])
    /\ Len(working_tracks) = 1
    /\ working_tracks[1].notes = <<>>
    /\ cur.notes = <<>>

(***************************************************************************)
(* C27                                                                     *)
(***************************************************************************)
\* The tempo records of a track's first k events: one for each Tempo event,
\* at its tick, its seconds converted from the records before it.
RECURSIVE TempoRecordsOf(_, _)
TempoRecordsOf(evs, k) ==
    IF k = 0 THEN <<>>
    ELSE IF evs[k].type # "Tempo" THEN TempoRecordsOf(evs, k - 1)
    ELSE Append(TempoRecordsOf(evs, k - 1),
                TempoEventRecord(TicksAt(evs, k),
                                 SecondsFromLatest(TempoRecordsOf(evs, k - 1),
                                                   TicksAt(evs, k)),
                                 evs[k].tempo))

TrackZeroRecords == TempoRecordsOf(midi_file.tracks[1], Len(midi_file.tracks[1]))

FormatOne == midi_file.midi_format = 1 /\ Len(midi_file.tracks) >= 1

\* The raw track being assembled is one of tracks 1..N, and the event about
\* to be handled is one of its events.
InNoteTrack ==
    /\ track_index + 2 <= Len(midi_file.tracks)
    /\ event_index <= Len(midi_file.tracks[track_index + 2])

\* The time of the track being assembled is the conversion of its tick by
\* the records of track 0.
TimedByTrackZero(evs) ==
    /\ evs[event_index] = CurrentEvent
    /\ track_state.time_in_ticks = TicksAt(evs, event_index - 1)
    /\ track_state.time_in_seconds
           = SecondsFromLatest(TrackZeroRecords, TicksAt(evs, event_index - 1))

\* The Note a NoteOff step emits has the times the records of track 0 give
\* to the ticks of its NoteOff and of a NoteOn of its key before it.
NoteTimedByTrackZero(evs, note) ==
    /\ note.time_off = SecondsFromLatest(TrackZeroRecords, TicksAt(evs, event_index))
    /\ \E a \in 1..(event_index - 1) :
           /\ evs[a].type = "NoteOn"
           /\ Key(evs[a]) = <<note.channel, note.note_number>>
           /\ note.time_on = SecondsFromLatest(TrackZeroRecords, TicksAt(evs, a))

NoteEmitted ==
    /\ Assembling /\ pc' = "assemble" /\ track_index' = track_index
    /\ cur'.notes # cur.notes

\* The raw tracks 1..N that hold a NoteOn.
NoteTracksWithNoteOn == SelectSeq(Tail(midi_file.tracks), HasNoteOn)

OnlyTracksAfterZeroReturned ==
    /\ Len(tracks) = Len(NoteTracksWithNoteOn)
    /\ \A i \in 1..Len(tracks) :
           tracks[i].notes_used
               = UsedPitches(NoteTracksWithNoteOn[i], Len(NoteTracksWithNoteOn[i]))

\* C27: for a format-1 file the tempo map holds the records of track 0 only;
\* the times of tracks 1..N and of their Notes are conversions by these
\* records, the Tempo events of tracks 1..N changing nothing; the note events
\* of track 0 give no Note and no Track.
C27_TrackZeroGovernsTiming ==
    /\ []((TempoMapBuilt /\ FormatOne) =>
              /\ tempo_tracks = <<TrackZeroRecords>>
              /\ Assembling =>
                     /\ InNoteTrack
                     /\ TimedByTrackZero(midi_file.tracks[track_index + 2])
              /\ pc = "done" => OnlyTracksAfterZeroReturned)
    /\ [][(FormatOne /\ NoteEmitted /\ InNoteTrack) =>
              NoteTimedByTrackZero(midi_file.tracks[track_index + 2],
                                   cur'.notes[Len(cur'.notes)])]_vars

\* Track 1 holds a Tempo event between the NoteOn and the NoteOff of a note;
\* the note ends 960 ticks after its start at the tempo of track 0.
C27_Witness ==
    /\ pc = "done"
    /\ midi_file.midi_format = 1
    /\ Len(midi_file.tracks) = 2
    /\ TemposOf(midi_file.tracks[1]) = <<250000>>
    /\ midi_file.tracks[2][1].type = "NoteOn"
    /\ midi_file.tracks[2][2].type = "Tempo"
    /\ midi_file.tracks[2][3].type = "NoteOff"
    /\ Len(tracks) = 1
    /\ Len(tracks[1].notes) = 1
    /\ tracks[1].notes[1].time_on = 0
    /\ tracks[1].notes[1].time_off = 960 * 250000

(***************************************************************************)
(* C28                                                                     *)
(***************************************************************************)
\* C28: for a format-0 file that kept no working track the channel split
\* ends without error and the track sequence returned is empty.
C28_EmptyFormatZeroReturnsNothing ==
    [][(pc = "split" /\ midi_file.midi_format = 0 /\ working_tracks = <<>>) =>
           /\ pc' = "done"
           /\ err' = NoError
           /\ tracks' = <<>>]_vars

(***************************************************************************)
(* C29                                                                     *)
(***************************************************************************)
NoDuplicate(seq) == \A j, k \in 1..Len(seq) : seq[j] = seq[k] => j = k

ConsistentStatistics(track) ==
    /\ NoDuplicate(track.notes_used)
    /\ track.min_note = SetMin(Range(track.notes_used))
    /\ track.max_note = SetMax(Range(track.notes_used))
    /\ track.min_note <= track.max_note
    /\ track.min_velo <= track.max_velo
    /\ \A k \in 1..Len(track.notes) :
           track.notes[k].note_number \in Range(track.notes_used)

\* C29: in every returned Track notes_used holds no pitch twice, min_note and
\* max_note are its smallest and largest pitch, min_velo <= max_velo, and
\* the pitch of every Note is one of notes_used.
C29_StatisticsConsistent ==
    pc = "done" => \A i \in 1..Len(tracks) : ConsistentStatistics(tracks[i])

\* A returned Track of two pitches and two velocities, one of the pitches met
\* twice among its NoteOn events.
C29_Witness ==
    /\ pc = "done"
    /\ Len(tracks) = 1
    /\ tracks[1].notes_used = <<60, 62>>
    /\ tracks[1].min_velo < tracks[1].max_velo
    /\ Len(tracks[1].notes) = 1
    /\ Cardinality({ k \in 1..Len(file_tracks[1]) :
                         /\ file_tracks[1][k].type = "NoteOn"
                         /\ file_tracks[1][k].note = 60 }) = 2

(***************************************************************************)
(* C30                                                                     *)
(***************************************************************************)
GlobalTimeRange(stats, notes) ==
    /\ stats.err = NoError
    /\ notes # {} =>
           /\ stats.time_min = ModelTime(SetMin({ n.time_on : n \in notes }))
           /\ stats.time_max = SetMax({ n.time_off : n \in notes })

\* C30: on the tracks read_midi_file returns, determine_global_ranges ends
\* without error and gives as time_min the smallest time_on and as time_max
\* the largest time_off of all the notes of all the tracks.
C30_GlobalRangesOfReturnedTracks ==
    pc = "done" => GlobalTimeRange(determine_global_ranges(tracks), NotesOfTracks(tracks))

====
